---- MODULE Spec2Model ----
(***************************************************************************)
(* A model of the asset database connection                               *)
(* (AzToolsFramework::AssetDatabase::AssetDatabaseConnection) and of the  *)
(* queries it runs against the SQLite store.                              *)
(*                                                                         *)
(* The module holds several specifications over one set of variables:     *)
(*   Spec      the connection life cycle (OpenDatabase, CloseDatabase,    *)
(*             ValidateDatabaseTable) over a store drawn in Init;         *)
(*   SpecQuery one query call over a prepared statement drawn in Init;    *)
(*   SpecDeps  the recursive product-dependency query, one store step at  *)
(*             a time (SpecDepsFair adds the fairness of a running query);*)
(*   SpecLike  GetLikeActualSearchTerm and the LIKE ... ESCAPE '|' match. *)
(*   SpecRounds, SpecEntries, SpecLegacy, SpecUnresolved, SpecStatement,  *)
(*   SpecDirect, SpecCombined, SpecJobInfo and SpecSourceDependency, each *)
(*             one family of calls over inputs drawn in Init;             *)
(*   SpecTree  GraphCanvasTreeItem without a model;                       *)
(*   SpecSnapshot  the flags of AnimGraphSnapshot.                        *)
(* A specification leaves the variables of the others at their idle       *)
(* values.                                                                 *)
(***************************************************************************)
EXTENDS Integers, Sequences, FiniteSets, TLC

VARIABLES
    readOnly,               \* IsReadOnly() of this connection
    store,                  \* the database file and what it holds
    m_databaseConnection,   \* "null" or "open"
    m_validatedTables,      \* names ValidateDatabaseTable has memoized
    lastOp,                 \* the last connection operation and its result
    call,                   \* the query call under way: its inputs
    outcome,                \* what the query call returned and delivered
    deps,                   \* the ProductDependencies rows and the root
    cte,                    \* the recursive query's queue and result table
    like                    \* a like search: literal, mode, pattern, match

vars == << readOnly, store, m_databaseConnection, m_validatedTables, lastOp,
           call, outcome, deps, cte, like >>

connVars == << readOnly, store, m_databaseConnection, m_validatedTables, lastOp >>
queryVars == << call, outcome >>
depsVars == << deps, cte >>
likeVars == << like >>

(***************************************************************************)
(* Bounds of the model.                                                    *)
(***************************************************************************)
MaxMissing == 1      \* expected tables absent from the store, at most
MaxDbInfoRows == 1   \* rows of the dbinfo table, at most
MaxRows == 2         \* rows a bound statement yields, at most
MaxEdges == 3        \* rows of the ProductDependencies table, at most
MaxCalls == 3        \* query calls made one after the other, at most
MaxLiteral == 2      \* characters of a search literal, at most
MaxName == 3         \* characters of a stored name, at most

(***************************************************************************)
(* The connection manager.                                                 *)
(***************************************************************************)
EXPECTED_TABLES ==
    << "BuilderInfo", "Files", "Jobs", "LegacySubIDs", "ProductDependencies",
       "Products", "ScanFolders", "SourceDependency", "Sources", "dbinfo" >>

ExpectedTableSet == { EXPECTED_TABLES[i] : i \in 1..Len(EXPECTED_TABLES) }

\* A table the store may hold beside the expected ones.
ExtraTable == "Extra"

TableNames == ExpectedTableSet \cup {ExtraTable}

\* The versions a dbinfo row can hold; DatabaseDoesNotExist is never stored.
StoredVersions == {"Older", "Current", "Newer"}

DatabaseVersions == StoredVersions \cup {"DatabaseDoesNotExist"}

CurrentDatabaseVersion == "Current"

IdleOp == [op |-> "None", ret |-> FALSE, stage |-> "None", arg |-> "None",
           asked |-> FALSE, touched |-> FALSE]

\* The stores a database file can be: a file that does not exist holds nothing.
Stores ==
    { s \in [exists : BOOLEAN, writable : BOOLEAN, opens : BOOLEAN,
             dbinfo : UNION { [1..n -> StoredVersions] : n \in 0..MaxDbInfoRows },
             tables : SUBSET TableNames] :
        /\ Cardinality(ExpectedTableSet \ s.tables) <= MaxMissing
        /\ ~s.exists => (s.dbinfo = << >> /\ s.tables = {} /\ s.writable)
        /\ "dbinfo" \notin s.tables => s.dbinfo = << >> }

\* SQLite::Connection::DoesTableExist
DoesTableExist(st, tableName) == tableName \in st.tables

\* What the store holds once SQLite::Connection::Open has run on it: a missing
\* file opened for writing is created empty.
OpenedStore(st) ==
    IF st.exists THEN st
    ELSE [st EXCEPT !.exists = TRUE, !.tables = {}, !.dbinfo = << >>]

\* QueryDatabaseInfoTable with the handler of QueryDatabaseVersion: the version of
\* the last row read; `uninit` is the value of the local dbVersion, which nothing
\* sets when the table has no row.  A statement that cannot be bound (no dbinfo
\* table) fails the query.
QueryDatabaseVersion(st, uninit) ==
    IF ~DoesTableExist(st, "dbinfo") THEN "DatabaseDoesNotExist"
    ELSE IF st.dbinfo = << >> THEN uninit
    ELSE st.dbinfo[Len(st.dbinfo)]

\* A ValidateDatabaseTable that keeps no memo.
ValidateDatabaseTable_NoMemo(conn, validated, st, tableName) ==
    IF conn = "null"
        THEN [ret |-> FALSE, validated |-> validated, asked |-> FALSE]
    ELSE [ret |-> DoesTableExist(st, tableName), validated |-> validated,
          asked |-> TRUE]

\* ValidateDatabaseTable: [ret, validated, asked], asked telling whether the store
\* was asked for the table.
ValidateDatabaseTable(conn, validated, st, tableName) ==
    IF tableName \in validated
        THEN [ret |-> TRUE, validated |-> validated, asked |-> FALSE]
    ELSE IF conn = "null"
        THEN [ret |-> FALSE, validated |-> validated, asked |-> FALSE]
    ELSE IF ~DoesTableExist(st, tableName)
        THEN [ret |-> FALSE, validated |-> validated, asked |-> TRUE]
    ELSE [ret |-> TRUE, validated |-> validated \cup {tableName}, asked |-> TRUE]

\* The loop of PostOpenDatabase over EXPECTED_TABLES, from index i on.
RECURSIVE ValidateExpectedTables(_, _, _)
ValidateExpectedTables(i, validated, st) ==
    IF i > Len(EXPECTED_TABLES) THEN [ret |-> TRUE, validated |-> validated]
    ELSE LET v == ValidateDatabaseTable("open", validated, st, EXPECTED_TABLES[i])
         IN  IF ~v.ret THEN [ret |-> FALSE, validated |-> v.validated]
             ELSE ValidateExpectedTables(i + 1, v.validated, st)

\* A PostOpenDatabase that does not compare the stored version.
PostOpenDatabase_NoVersionGate(validated, st, uninit) ==
    ValidateExpectedTables(1, validated, st)

\* A PostOpenDatabase whose loop starts one table late.
PostOpenDatabase_SkipsFirstTable(validated, st, uninit) ==
    IF QueryDatabaseVersion(st, uninit) # CurrentDatabaseVersion
        THEN [ret |-> FALSE, validated |-> validated]
    ELSE ValidateExpectedTables(2, validated, st)

PostOpenDatabase(validated, st, uninit) ==
    IF QueryDatabaseVersion(st, uninit) # CurrentDatabaseVersion
        THEN [ret |-> FALSE, validated |-> validated]
    ELSE ValidateExpectedTables(1, validated, st)

\* A CloseDatabase that closes the store whether there is a handle or not.
CloseDatabaseResult_AlwaysCloses(conn, validated) ==
    [conn |-> "null", validated |-> {}, touched |-> TRUE]

\* CloseDatabase: the connection and the memo after it; touched tells whether the
\* store was closed.
CloseDatabaseResult(conn, validated) ==
    [conn |-> "null", validated |-> {}, touched |-> conn # "null"]

\* An OpenDatabase that returns false after a failed PostOpenDatabase without
\* closing.
OpenDatabaseResult_NoCloseOnFailure(ro, st, conn, validated, uninit) ==
    IF ro /\ ~st.exists
        THEN [ret |-> FALSE, stage |-> "NoFile", conn |-> conn,
              validated |-> validated, store |-> st]
    ELSE IF ~ro /\ st.exists /\ ~st.writable
        THEN [ret |-> FALSE, stage |-> "NotWritable", conn |-> conn,
              validated |-> validated, store |-> st]
    ELSE IF ~st.opens
        THEN [ret |-> FALSE, stage |-> "StoreOpenFailed", conn |-> "null",
              validated |-> validated, store |-> st]
    ELSE LET opened == OpenedStore(st)
             post == PostOpenDatabase({}, opened, uninit)
         IN  [ret |-> post.ret,
              stage |-> IF post.ret THEN "Opened" ELSE "PostOpenFailed",
              conn |-> "open", validated |-> post.validated, store |-> opened]

\* OpenDatabase, called on a closed connection: what it returns, how far it got,
\* and the connection, the memo and the store after it.
OpenDatabaseResult(ro, st, conn, validated, uninit) ==
    IF ro /\ ~st.exists
        THEN [ret |-> FALSE, stage |-> "NoFile", conn |-> conn,
              validated |-> validated, store |-> st]
    ELSE IF ~ro /\ st.exists /\ ~st.writable
        THEN [ret |-> FALSE, stage |-> "NotWritable", conn |-> conn,
              validated |-> validated, store |-> st]
    ELSE IF ~st.opens
        THEN [ret |-> FALSE, stage |-> "StoreOpenFailed", conn |-> "null",
              validated |-> validated, store |-> st]
    ELSE LET opened == OpenedStore(st)
             post == PostOpenDatabase({}, opened, uninit)
             closed == CloseDatabaseResult("open", post.validated)
         IN  IF ~post.ret
                 THEN [ret |-> FALSE, stage |-> "PostOpenFailed", conn |-> closed.conn,
                       validated |-> closed.validated, store |-> opened]
             ELSE [ret |-> TRUE, stage |-> "Opened", conn |-> "open",
                   validated |-> post.validated, store |-> opened]

OpenDatabase ==
    /\ m_databaseConnection = "null"
    /\ \E uninit \in DatabaseVersions :
         LET r == OpenDatabaseResult(readOnly, store, m_databaseConnection,
                                     m_validatedTables, uninit)
         IN  /\ m_databaseConnection' = r.conn
             /\ m_validatedTables' = r.validated
             /\ store' = r.store
             /\ lastOp' = [op |-> "OpenDatabase", ret |-> r.ret, stage |-> r.stage,
                           arg |-> "None", asked |-> FALSE, touched |-> FALSE]
    /\ UNCHANGED << readOnly, queryVars, depsVars, likeVars >>

CloseDatabase ==
    /\ LET r == CloseDatabaseResult(m_databaseConnection, m_validatedTables)
       IN  /\ m_databaseConnection' = r.conn
           /\ m_validatedTables' = r.validated
           /\ lastOp' = [op |-> "CloseDatabase", ret |-> TRUE, stage |-> "None",
                         arg |-> "None", asked |-> FALSE, touched |-> r.touched]
    /\ UNCHANGED << readOnly, store, queryVars, depsVars, likeVars >>

ValidateTable ==
    /\ \E tableName \in TableNames :
         LET r == ValidateDatabaseTable(m_databaseConnection, m_validatedTables,
                                        store, tableName)
         IN  /\ m_validatedTables' = r.validated
             /\ lastOp' = [op |-> "ValidateDatabaseTable", ret |-> r.ret,
                           stage |-> "None", arg |-> tableName, asked |-> r.asked,
                           touched |-> FALSE]
    /\ UNCHANGED << readOnly, store, m_databaseConnection, queryVars, depsVars, likeVars >>

IdleCall == [pc |-> "none"]
IdleOutcome == [pc |-> "none"]
IdleDeps == [pc |-> "none"]
IdleCte == [pc |-> "none"]
IdleLike == [pc |-> "none"]

ConnInit ==
    /\ readOnly \in BOOLEAN
    /\ store \in Stores
    /\ m_databaseConnection = "null"
    /\ m_validatedTables = {}
    /\ lastOp = IdleOp

Init ==
    /\ ConnInit
    /\ call = IdleCall
    /\ outcome = IdleOutcome
    /\ deps = IdleDeps
    /\ cte = IdleCte
    /\ like = IdleLike

Next == OpenDatabase \/ CloseDatabase \/ ValidateTable

Spec == Init /\ [][Next]_vars

(***************************************************************************)
(* Two rounds of OpenDatabase and CloseDatabase on one database, with what  *)
(* each OpenDatabase returned and validated kept for comparison.            *)
(***************************************************************************)
\* The calls of the two rounds, in order.
RoundCalls == << "OpenDatabase", "CloseDatabase", "OpenDatabase", "CloseDatabase" >>

\* The next call of the rounds is OpenDatabase.
RoundOpenDatabase ==
    /\ call.pc = "rounds"
    /\ call.made < Len(RoundCalls)
    /\ RoundCalls[call.made + 1] = "OpenDatabase"
    /\ m_databaseConnection = "null"
    /\ \E uninit \in DatabaseVersions :
         LET r == OpenDatabaseResult(readOnly, store, m_databaseConnection,
                                     m_validatedTables, uninit)
         IN  /\ m_databaseConnection' = r.conn
             /\ m_validatedTables' = r.validated
             /\ store' = r.store
             /\ lastOp' = [op |-> "OpenDatabase", ret |-> r.ret, stage |-> r.stage,
                           arg |-> "None", asked |-> FALSE, touched |-> FALSE]
             /\ outcome' = [outcome EXCEPT
                              !.opens = Append(outcome.opens,
                                               [ret |-> r.ret, validated |-> r.validated])]
    /\ call' = [call EXCEPT !.made = call.made + 1]
    /\ UNCHANGED << readOnly, depsVars, likeVars >>

\* The next call of the rounds is CloseDatabase.
RoundCloseDatabase ==
    /\ call.pc = "rounds"
    /\ call.made < Len(RoundCalls)
    /\ RoundCalls[call.made + 1] = "CloseDatabase"
    /\ LET r == CloseDatabaseResult(m_databaseConnection, m_validatedTables)
       IN  /\ m_databaseConnection' = r.conn
           /\ m_validatedTables' = r.validated
           /\ lastOp' = [op |-> "CloseDatabase", ret |-> TRUE, stage |-> "None",
                         arg |-> "None", asked |-> FALSE, touched |-> r.touched]
    /\ call' = [call EXCEPT !.made = call.made + 1]
    /\ UNCHANGED << readOnly, store, outcome, depsVars, likeVars >>

RoundsInit ==
    /\ ConnInit
    /\ call = [pc |-> "rounds", made |-> 0]
    /\ outcome = [pc |-> "rounds", opens |-> << >>]
    /\ deps = IdleDeps
    /\ cte = IdleCte
    /\ like = IdleLike

RoundsNext == RoundOpenDatabase \/ RoundCloseDatabase

SpecRounds == RoundsInit /\ [][RoundsNext]_vars

(***************************************************************************)
(* The result projection layer: one query call over a bound statement.     *)
(***************************************************************************)
JobKeys == {"k1", "k2"}
BuilderGuids == {"g1", "g2"}
JobStatuses == {"Completed", "Failed"}

\* A row of a statement's result: the columns the job criteria read.
Rows == [jobKey : JobKeys, builderGuid : BuilderGuids, status : JobStatuses]

\* The optional criteria of a call: a null job key, a null builder GUID and the
\* status Any are the absent ones.
NoCriteria == [jobKey |-> "null", builderGuid |-> "NullGuid", status |-> "Any"]

Criteria == [jobKey : {"null", "k1"}, builderGuid : {"NullGuid", "g1"},
             status : {"Any", "Completed"}]

NoFault == [kind |-> "none", at |-> 0]

\* What can go wrong in the store during one call over `rows`: the bind, the
\* n-th Step, or the column fetch of the i-th row.
Faults(rows) ==
    {NoFault, [kind |-> "bind", at |-> 0]}
        \cup { [kind |-> "step", at |-> n] : n \in 1..(Len(rows) + 1) }
        \cup { [kind |-> "fetch", at |-> i] : i \in 1..Len(rows) }

\* The methods modelled, by the result function each one runs.
PlainMethods == {"QuerySourcesTable", "QueryProductDependenciesTable",
                 "QueryBuilderInfoTable", "QueryScanFolderBySourceID"}
FilteredMethods == {"QueryJobsTable", "QueryProductsTable", "QueryCombined"}
Methods == PlainMethods \cup FilteredMethods

RowSeqs == UNION { [1..n -> Rows] : n \in 0..MaxRows }

\* Statement::Step, the n-th one of a call
Step(st, n) ==
    IF st.fault = [kind |-> "step", at |-> n] THEN "SqlError"
    ELSE IF n <= Len(st.rows) THEN "SqlOK"
    ELSE "SqlDone"

\* BoundColumnSet::Fetch / Column::Fetch on the i-th row
FetchOK(st, i) == st.fault # [kind |-> "fetch", at |-> i]

\* SqlQuery::Bind
BindOK(st) == st.fault.kind # "bind"

\* The caller's handler on its n-th invocation: it returns false on the stopAt-th
\* (never, when stopAt is 0).
HandlerContinues(stopAt, n) == n # stopAt

\* A ResultMatchesJobCriteria that does not compare the status.
ResultMatchesJobCriteria_NoStatus(jobKey, builderGuid, status, savedJobKey, savedBuilderGuid, savedJobStatus) ==
    /\ (IF jobKey # "null" THEN savedJobKey = jobKey ELSE TRUE)
    /\ (IF builderGuid # "NullGuid" THEN savedBuilderGuid = builderGuid ELSE TRUE)

ResultMatchesJobCriteria(jobKey, builderGuid, status, savedJobKey, savedBuilderGuid, savedJobStatus) ==
    /\ (IF jobKey # "null" THEN savedJobKey = jobKey ELSE TRUE)
    /\ (IF builderGuid # "NullGuid" THEN savedBuilderGuid = builderGuid ELSE TRUE)
    /\ (IF status # "Any" THEN savedJobStatus = status ELSE TRUE)

\* The locals of a result function: the status of the last Step, the number of
\* Steps made (the current row, while the status is SqlOK), the rows handed to
\* the handler, validResult, and the value returned once it has returned.
LoopStart(st) ==
    [result |-> Step(st, 1), k |-> 1, delivered |-> << >>,
     validResult |-> (Step(st, 1) = "SqlDone"), returned |-> FALSE, ret |-> FALSE]

Return(s, v) == [s EXCEPT !.returned = TRUE, !.ret = v]

\* A call of the handler that steps on whatever the handler returned.
CallHandler_StepsOn(st, stopAt, s) ==
    [s EXCEPT !.result = Step(st, s.k + 1), !.k = s.k + 1,
              !.delivered = Append(s.delivered, s.k)]

\* handler(entry), then the next Step or the end of the iteration
CallHandler(st, stopAt, s) ==
    LET d == Append(s.delivered, s.k)
    IN  IF HandlerContinues(stopAt, Len(d))
            THEN [s EXCEPT !.result = Step(st, s.k + 1), !.k = s.k + 1,
                           !.delivered = d]
        ELSE [s EXCEPT !.result = "SqlDone", !.delivered = d]

\* a row that does not match: the next Step
SkipRow(st, s) == [s EXCEPT !.result = Step(st, s.k + 1), !.k = s.k + 1]

\* One pass of the while loop of GetResult.
GetResultIter(st, stopAt, crit, s) ==
    IF ~FetchOK(st, s.k) THEN Return(s, FALSE)
    ELSE [CallHandler(st, stopAt, s) EXCEPT !.validResult = TRUE]

\* One pass of the while loop of GetJobResult.
GetJobResultIter(st, stopAt, crit, s) ==
    IF ~FetchOK(st, s.k) THEN Return(s, FALSE)
    ELSE LET job == st.rows[s.k]
         IN  IF ResultMatchesJobCriteria(crit.jobKey, crit.builderGuid, crit.status,
                                         job.jobKey, job.builderGuid, job.status)
                 THEN [CallHandler(st, stopAt, s) EXCEPT !.validResult = TRUE]
             ELSE [SkipRow(st, s) EXCEPT !.validResult = TRUE]

\* One pass of the while loop of GetProductResult: a criterion's column is
\* fetched only when the criterion is given, the product only when the row
\* matches.
GetProductResultIter(st, stopAt, crit, s) ==
    LET row == st.rows[s.k]
        anyCriterion == crit # NoCriteria
        savedJobKey == IF crit.jobKey # "null" THEN row.jobKey ELSE "unfetched"
        savedBuilderGuid ==
            IF crit.builderGuid # "NullGuid" THEN row.builderGuid ELSE "unfetched"
        savedJobStatus == IF crit.status # "Any" THEN row.status ELSE "unfetched"
    IN  IF anyCriterion /\ ~FetchOK(st, s.k) THEN Return(s, FALSE)
        ELSE IF ResultMatchesJobCriteria(crit.jobKey, crit.builderGuid, crit.status,
                                         savedJobKey, savedBuilderGuid, savedJobStatus)
            THEN IF ~FetchOK(st, s.k) THEN Return(s, FALSE)
                 ELSE [CallHandler(st, stopAt, s) EXCEPT !.validResult = TRUE]
        ELSE [SkipRow(st, s) EXCEPT !.validResult = TRUE]

\* One pass of the while loop of GetCombinedResult (without the legacy sub-ids).
GetCombinedResultIter(st, stopAt, crit, s) ==
    IF ~FetchOK(st, s.k) THEN Return(s, FALSE)
    ELSE LET combined == st.rows[s.k]
         IN  IF ResultMatchesJobCriteria(crit.jobKey, crit.builderGuid, crit.status,
                                         combined.jobKey, combined.builderGuid,
                                         combined.status)
                 THEN [CallHandler(st, stopAt, s) EXCEPT !.validResult = TRUE]
             ELSE [SkipRow(st, s) EXCEPT !.validResult = TRUE]

\* One pass of the while loop of GetCombinedDependencyResult.
GetCombinedDependencyResultIter(st, stopAt, crit, s) ==
    IF ~FetchOK(st, s.k) THEN Return(s, FALSE)
    ELSE [CallHandler(st, stopAt, s) EXCEPT !.validResult = TRUE]

\* One pass of the while loop of QueryBuilderInfoTable: a handler that returns
\* false breaks out of the loop with the status left at SqlOK.
QueryBuilderInfoTableIter(st, stopAt, crit, s) ==
    IF ~FetchOK(st, s.k) THEN Return(s, FALSE)
    ELSE LET d == Append(s.delivered, s.k)
         IN  IF ~HandlerContinues(stopAt, Len(d))
                 THEN [s EXCEPT !.delivered = d, !.result = "break"]
             ELSE [s EXCEPT !.delivered = d, !.result = Step(st, s.k + 1),
                            !.k = s.k + 1]

LoopIter(fn, st, stopAt, crit, s) ==
    CASE fn = "GetResult" -> GetResultIter(st, stopAt, crit, s)
      [] fn = "GetJobResult" -> GetJobResultIter(st, stopAt, crit, s)
      [] fn = "GetProductResult" -> GetProductResultIter(st, stopAt, crit, s)
      [] fn = "GetCombinedResult" -> GetCombinedResultIter(st, stopAt, crit, s)
      [] fn = "GetCombinedDependencyResult" ->
             GetCombinedDependencyResultIter(st, stopAt, crit, s)
      [] fn = "QueryBuilderInfoTable" -> QueryBuilderInfoTableIter(st, stopAt, crit, s)

\* while (result == Statement::SqlOK) { ... }
RECURSIVE RowLoop(_, _, _, _, _)
RowLoop(fn, st, stopAt, crit, s) ==
    IF s.returned \/ s.result # "SqlOK" THEN s
    ELSE RowLoop(fn, st, stopAt, crit, LoopIter(fn, st, stopAt, crit, s))

\* An end of the function that does not look at the status of the last Step.
AfterLoop_IgnoresError(s) ==
    IF s.returned THEN s ELSE Return(s, s.validResult)

\* What follows the loop in GetResult, GetJobResult, GetProductResult,
\* GetCombinedResult and GetCombinedDependencyResult.
AfterLoop(s) ==
    IF s.returned THEN s
    ELSE IF s.result = "SqlError" THEN Return(s, FALSE)
    ELSE Return(s, s.validResult)

\* What a call hands back: its return value, the rows it delivered (by their
\* position in the result) and the number of Steps it made.
Outcome(s) == [pc |-> "done", ret |-> s.ret, delivered |-> s.delivered, steps |-> s.k]

BindFailed == [pc |-> "done", ret |-> FALSE, delivered |-> << >>, steps |-> 0]

GetResult(st, stopAt) ==
    Outcome(AfterLoop(RowLoop("GetResult", st, stopAt, NoCriteria, LoopStart(st))))

GetJobResult(st, stopAt, crit) ==
    Outcome(AfterLoop(RowLoop("GetJobResult", st, stopAt, crit, LoopStart(st))))

GetProductResult(st, stopAt, crit) ==
    Outcome(AfterLoop(RowLoop("GetProductResult", st, stopAt, crit, LoopStart(st))))

GetCombinedResult(st, stopAt, crit) ==
    Outcome(AfterLoop(RowLoop("GetCombinedResult", st, stopAt, crit, LoopStart(st))))

GetCombinedDependencyResult(st, stopAt) ==
    Outcome(AfterLoop(RowLoop("GetCombinedDependencyResult", st, stopAt, NoCriteria,
                              LoopStart(st))))

\* SqlQuery::BindAndQuery and BindAndThen(...).Query: bind the statement, then
\* run the result function on it; a failed bind returns false.
BindAndQuery(st, result) == IF ~BindOK(st) THEN BindFailed ELSE result

\* QueryBuilderInfoTable, which binds and steps by itself.
QueryBuilderInfoTableResult(st, stopAt) ==
    IF ~BindOK(st) THEN BindFailed
    ELSE LET first == [LoopStart(st) EXCEPT !.validResult = TRUE]
             s == IF first.result = "SqlError" THEN Return(first, FALSE)
                  ELSE RowLoop("QueryBuilderInfoTable", st, stopAt, NoCriteria, first)
         IN  Outcome(IF s.returned THEN s
                     ELSE IF s.result = "SqlError" THEN Return(s, FALSE)
                     ELSE Return(s, TRUE))

\* QueryCombinedBySourceID without a platform and with the default criteria.
QueryCombinedBySourceIDResult(st, stopAt, crit) ==
    BindAndQuery(st, GetCombinedResult(st, stopAt, crit))

\* QueryScanFolderBySourceID: found && succeeded
QueryScanFolderBySourceIDResult(st, stopAt) ==
    LET combined == QueryCombinedBySourceIDResult(st, stopAt, NoCriteria)
        found == combined.delivered # << >>
        succeeded == combined.ret
    IN  [combined EXCEPT !.ret = found /\ succeeded]

\* The calls drawn in Init: a method, the rows its bound statement yields, the
\* store fault met, the handler (stopAt) and, for the filtered methods, the
\* criteria.
Calls ==
    { c \in [pc : {"idle"}, method : Methods, rows : RowSeqs,
             fault : UNION { Faults(rows) : rows \in RowSeqs },
             stopAt : 0..MaxRows, crit : Criteria] :
        /\ c.fault \in Faults(c.rows)
        /\ c.method \in PlainMethods => c.crit = NoCriteria }

Statement(c) == [rows |-> c.rows, fault |-> c.fault]

Run(method) ==
    /\ call.pc = "idle"
    /\ call.method = method
    /\ call' = [call EXCEPT !.pc = "done"]

QuerySourcesTable ==
    /\ Run("QuerySourcesTable")
    /\ outcome' = BindAndQuery(Statement(call), GetResult(Statement(call), call.stopAt))
    /\ UNCHANGED << connVars, depsVars, likeVars >>

QueryJobsTable ==
    /\ Run("QueryJobsTable")
    /\ outcome' = BindAndQuery(Statement(call),
                               GetJobResult(Statement(call), call.stopAt, call.crit))
    /\ UNCHANGED << connVars, depsVars, likeVars >>

QueryProductsTable ==
    /\ Run("QueryProductsTable")
    /\ outcome' = BindAndQuery(Statement(call),
                               GetProductResult(Statement(call), call.stopAt, call.crit))
    /\ UNCHANGED << connVars, depsVars, likeVars >>

QueryCombined ==
    /\ Run("QueryCombined")
    /\ outcome' = BindAndQuery(Statement(call),
                               GetCombinedResult(Statement(call), call.stopAt, call.crit))
    /\ UNCHANGED << connVars, depsVars, likeVars >>

QueryProductDependenciesTable ==
    /\ Run("QueryProductDependenciesTable")
    /\ outcome' = BindAndQuery(Statement(call),
                               GetCombinedDependencyResult(Statement(call), call.stopAt))
    /\ UNCHANGED << connVars, depsVars, likeVars >>

QueryBuilderInfoTable ==
    /\ Run("QueryBuilderInfoTable")
    /\ outcome' = QueryBuilderInfoTableResult(Statement(call), call.stopAt)
    /\ UNCHANGED << connVars, depsVars, likeVars >>

QueryScanFolderBySourceID ==
    /\ Run("QueryScanFolderBySourceID")
    /\ outcome' = QueryScanFolderBySourceIDResult(Statement(call), call.stopAt)
    /\ UNCHANGED << connVars, depsVars, likeVars >>

ConnIdle ==
    /\ readOnly = FALSE
    /\ store = [exists |-> FALSE, writable |-> TRUE, opens |-> TRUE,
                dbinfo |-> << >>, tables |-> {}]
    /\ m_databaseConnection = "null"
    /\ m_validatedTables = {}
    /\ lastOp = IdleOp

QueryInit ==
    /\ ConnIdle
    /\ call \in Calls
    /\ outcome = IdleOutcome
    /\ deps = IdleDeps
    /\ cte = IdleCte
    /\ like = IdleLike

QueryNext ==
    \/ QuerySourcesTable
    \/ QueryJobsTable
    \/ QueryProductsTable
    \/ QueryCombined
    \/ QueryProductDependenciesTable
    \/ QueryBuilderInfoTable
    \/ QueryScanFolderBySourceID

SpecQuery == QueryInit /\ [][QueryNext]_vars

(***************************************************************************)
(* The equality operators of the database entries.                          *)
(***************************************************************************)
ScanFolderDatabaseEntries ==
    [m_scanFolderID : {1, 2}, m_scanFolder : {"c:/dev", "d:/dev"},
     m_displayName : {"dev", "root"}, m_portableKey : {"key1", "key2"},
     m_outputPrefix : {"", "out"}, m_isRoot : BOOLEAN]

ProductDatabaseEntries ==
    [m_productID : {1, 2}, m_jobPK : {1, 2}, m_subID : {0, 1},
     m_productName : {"a.dds", "b.dds"}, m_assetType : {"Texture", "Mesh"},
     m_legacyGuid : {"guid1", "guid2"}]

\* An operator== that takes the id for the identity as well.
ScanFolderDatabaseEntryEquals_ComparesID(this, other) ==
    /\ this.m_portableKey = other.m_portableKey
    /\ this.m_scanFolderID = other.m_scanFolderID

\* ScanFolderDatabaseEntry::operator==
ScanFolderDatabaseEntryEquals(this, other) ==
    this.m_portableKey = other.m_portableKey

\* AzFramework::StringFunc::Equal on two names
StringFuncEqual(inA, inB) == inA = inB

\* An operator== that compares the legacy guid as well.
ProductDatabaseEntryEquals_ComparesLegacyGuid(this, other) ==
    /\ this.m_jobPK = other.m_jobPK
    /\ this.m_subID = other.m_subID
    /\ this.m_assetType = other.m_assetType
    /\ StringFuncEqual(this.m_productName, other.m_productName)
    /\ this.m_legacyGuid = other.m_legacyGuid

\* ProductDatabaseEntry::operator==
ProductDatabaseEntryEquals(this, other) ==
    /\ this.m_jobPK = other.m_jobPK
    /\ this.m_subID = other.m_subID
    /\ this.m_assetType = other.m_assetType
    /\ StringFuncEqual(this.m_productName, other.m_productName)

\* a == b on two scan folder entries
CompareScanFolders ==
    /\ call.pc = "idle"
    /\ call.method = "ScanFolderDatabaseEntry::operator=="
    /\ call' = [call EXCEPT !.pc = "done"]
    /\ outcome' = [pc |-> "done", ret |-> ScanFolderDatabaseEntryEquals(call.this, call.other)]
    /\ UNCHANGED << connVars, depsVars, likeVars >>

\* a == b on two product entries
CompareProducts ==
    /\ call.pc = "idle"
    /\ call.method = "ProductDatabaseEntry::operator=="
    /\ call' = [call EXCEPT !.pc = "done"]
    /\ outcome' = [pc |-> "done", ret |-> ProductDatabaseEntryEquals(call.this, call.other)]
    /\ UNCHANGED << connVars, depsVars, likeVars >>

EntriesInit ==
    /\ ConnIdle
    /\ \/ call \in [pc : {"idle"}, method : {"ScanFolderDatabaseEntry::operator=="},
                    this : ScanFolderDatabaseEntries, other : ScanFolderDatabaseEntries]
       \/ call \in [pc : {"idle"}, method : {"ProductDatabaseEntry::operator=="},
                    this : ProductDatabaseEntries, other : ProductDatabaseEntries]
    /\ outcome = IdleOutcome
    /\ deps = IdleDeps
    /\ cte = IdleCte
    /\ like = IdleLike

EntriesNext == CompareScanFolders \/ CompareProducts

SpecEntries == EntriesInit /\ [][EntriesNext]_vars

(***************************************************************************)
(* QueryCombined with includeLegacySubIDs: each row that matches is given   *)
(* the legacy sub-ids of its product before it goes to the handler.         *)
(***************************************************************************)
\* The rows of the combined statement, with the product id of each, and the rows
\* of the LegacySubIDs table.
CombinedRows ==
    [jobKey : {"k1"}, builderGuid : {"g1"}, status : JobStatuses, productID : {1, 2}]

LegacySubIDsRows == [ProductPK : {1, 2}, SubID : {10, 11}]

\* QueryLegacySubIdsByProductID(productId, handler) with a handler that takes
\* every row: the LegacySubIDs rows of the product, in the order of the table.
QueryLegacySubIdsByProductID(table, productId) ==
    SelectSeq(table, LAMBDA entry : entry.ProductPK = productId)

\* handler(combined) with the legacy sub-ids now in combined noted down.
HandOver(st, stopAt, s) ==
    CallHandler(st, stopAt, [s EXCEPT !.handed = Append(s.handed, s.m_legacySubIDs)])

\* One pass of the while loop of GetCombinedResult: `combined` is declared before
\* the loop, the fetch sets its columns, and the handler of the legacy lookup
\* appends to combined.m_legacySubIDs.
GetCombinedResultLegacyIter(st, stopAt, crit, includeLegacySubIDs, table, s) ==
    IF ~FetchOK(st, s.k) THEN Return(s, FALSE)
    ELSE LET combined == st.rows[s.k]
             looked == IF includeLegacySubIDs
                           THEN [s EXCEPT !.m_legacySubIDs =
                                    s.m_legacySubIDs \o QueryLegacySubIdsByProductID(
                                                            table, combined.productID)]
                       ELSE s
         IN  IF ResultMatchesJobCriteria(crit.jobKey, crit.builderGuid, crit.status,
                                         combined.jobKey, combined.builderGuid,
                                         combined.status)
                 THEN [HandOver(st, stopAt, looked) EXCEPT !.validResult = TRUE]
             ELSE [SkipRow(st, s) EXCEPT !.validResult = TRUE]

RECURSIVE GetCombinedResultLegacyLoop(_, _, _, _, _, _)
GetCombinedResultLegacyLoop(st, stopAt, crit, includeLegacySubIDs, table, s) ==
    IF s.returned \/ s.result # "SqlOK" THEN s
    ELSE GetCombinedResultLegacyLoop(st, stopAt, crit, includeLegacySubIDs, table,
             GetCombinedResultLegacyIter(st, stopAt, crit, includeLegacySubIDs, table, s))

\* GetCombinedResult with the includeLegacySubIDs argument.
GetCombinedResultLegacy(st, stopAt, crit, includeLegacySubIDs, table) ==
    LET first == LoopStart(st)
        start == [result |-> first.result, k |-> first.k, delivered |-> first.delivered,
                  validResult |-> first.validResult, returned |-> first.returned,
                  ret |-> first.ret, m_legacySubIDs |-> << >>, handed |-> << >>]
        s == AfterLoop(GetCombinedResultLegacyLoop(st, stopAt, crit, includeLegacySubIDs,
                                                   table, start))
    IN  [pc |-> "done", ret |-> s.ret, delivered |-> s.delivered, steps |-> s.k,
         legacySubIDs |-> s.handed]

\* The calls of QueryCombined drawn in Init.
LegacyCalls ==
    [pc : {"idle"}, method : {"QueryCombined"},
     rows : UNION { [1..n -> CombinedRows] : n \in 0..MaxRows },
     fault : {NoFault}, stopAt : 0..MaxRows,
     crit : {NoCriteria, [NoCriteria EXCEPT !.status = "Completed"]},
     includeLegacySubIDs : BOOLEAN,
     table : UNION { [1..n -> LegacySubIDsRows] : n \in 0..MaxRows }]

\* QueryCombined(handler, builderGuid, jobKey, platform, status,
\* includeLegacySubIDs) without a platform.
QueryCombinedLegacySubIDs ==
    /\ Run("QueryCombined")
    /\ LET st == Statement(call)
       IN  outcome' =
             IF ~BindOK(st) THEN [pc |-> "done", ret |-> FALSE, delivered |-> << >>,
                                  steps |-> 0, legacySubIDs |-> << >>]
             ELSE GetCombinedResultLegacy(st, call.stopAt, call.crit,
                                          call.includeLegacySubIDs, call.table)
    /\ UNCHANGED << connVars, depsVars, likeVars >>

LegacyInit ==
    /\ ConnIdle
    /\ call \in LegacyCalls
    /\ outcome = IdleOutcome
    /\ deps = IdleDeps
    /\ cte = IdleCte
    /\ like = IdleLike

LegacyNext == QueryCombinedLegacySubIDs

SpecLegacy == LegacyInit /\ [][LegacyNext]_vars

(***************************************************************************)
(* The unresolved-dependency worklist: QueryUnresolvedProductDependencies   *)
(* over a ProductDependencies table.                                        *)
(***************************************************************************)
\* The UnresolvedPath of a ProductDependencies row: the empty string, a path,
\* or no value at all.
UnresolvedPaths == {"", "a.txt", "NULL"}

\* The ProductDependencies tables, by the UnresolvedPath column of their rows.
DependencyTables == UNION { [1..n -> UnresolvedPaths] : n \in 0..MaxRows }

\* a != b as the store evaluates it: no value compared with anything is no value
SqlNotEqual(a, b) ==
    IF a = "NULL" \/ b = "NULL" THEN "NULL" ELSE IF a # b THEN "TRUE" ELSE "FALSE"

\* A statement without the where clause.
GET_UNRESOLVED_PRODUCT_DEPENDENCIES_STATEMENT_NoWhere(table) ==
    [i \in 1..Len(table) |-> i]

\* SELECT * FROM ProductDependencies where UnresolvedPath != '': the positions
\* of the rows for which the comparison is true.
GET_UNRESOLVED_PRODUCT_DEPENDENCIES_STATEMENT(table) ==
    SelectSeq([i \in 1..Len(table) |-> i], LAMBDA i : SqlNotEqual(table[i], "") = "TRUE")

\* The calls of QueryUnresolvedProductDependencies: a table, a store fault met
\* while its selected rows are read and a handler.
UnresolvedCalls ==
    { c \in [pc : {"idle"}, method : {"QueryUnresolvedProductDependencies"},
             table : DependencyTables,
             fault : UNION { Faults(t) : t \in DependencyTables },
             stopAt : 0..MaxRows] :
        c.fault \in Faults(GET_UNRESOLVED_PRODUCT_DEPENDENCIES_STATEMENT(c.table)) }

\* QueryUnresolvedProductDependencies(handler): the rows the statement selects
\* go through GetProductDependencyResult, that is GetResult, to the handler.
QueryUnresolvedProductDependencies ==
    /\ Run("QueryUnresolvedProductDependencies")
    /\ LET selected == GET_UNRESOLVED_PRODUCT_DEPENDENCIES_STATEMENT(call.table)
           st == [rows |-> selected, fault |-> call.fault]
           result == BindAndQuery(st, GetResult(st, call.stopAt))
       IN  outcome' = [result EXCEPT
                         !.delivered = [i \in 1..Len(result.delivered) |->
                                           selected[result.delivered[i]]]]
    /\ UNCHANGED << connVars, depsVars, likeVars >>

UnresolvedInit ==
    /\ ConnIdle
    /\ call \in UnresolvedCalls
    /\ outcome = IdleOutcome
    /\ deps = IdleDeps
    /\ cte = IdleCte
    /\ like = IdleLike

UnresolvedNext == QueryUnresolvedProductDependencies

SpecUnresolved == UnresolvedInit /\ [][UnresolvedNext]_vars

(***************************************************************************)
(* The statement handle of a query call: acquired by the bind, held by the  *)
(* StatementAutoFinalizer of the call and finalized when the call's scope   *)
(* is left.                                                                 *)
(***************************************************************************)
\* The methods followed here: the two that bind and step by themselves and one
\* of those that go through BindAndQuery.
StatementMethods ==
    {"QuerySourceAnalysisFingerprint", "QueryBuilderInfoTable", "QuerySourcesTable"}

\* The statements a call can be bound to, by their number of rows, with the
\* fault met.
StatementInputs ==
    { st \in [rows : UNION { [1..n -> 1..n] : n \in 0..MaxRows },
              fault : UNION { Faults([i \in 1..n |-> i]) : n \in 0..MaxRows }] :
        /\ st.fault \in Faults(st.rows)
        /\ \A i \in 1..Len(st.rows) : st.rows[i] = i }

\* SqlQuery::Bind(connection, autoFinal, args...): the statement handle is
\* acquired and given to autoFinal, then the arguments are bound.
Bind(st, held) == [ok |-> BindOK(st), autoFinal |-> "statement", held |-> held + 1]

\* A destructor that leaves the statement as it is.
StatementAutoFinalizerDestructor_Leaks(autoFinal, held) == held

\* ~StatementAutoFinalizer(): the statement it holds, if any, is finalized.
StatementAutoFinalizerDestructor(autoFinal, held) ==
    IF autoFinal = "statement" THEN held - 1 ELSE held

\* The body of QuerySourceAnalysisFingerprint once the bind has succeeded: one
\* Step, and the text of column 0 if there is a row.
QuerySourceAnalysisFingerprintResult(st) ==
    IF ~BindOK(st) THEN BindFailed
    ELSE LET result == Step(st, 1)
             validResult == (result = "SqlDone") \/ (result = "SqlOK")
         IN  [pc |-> "done", ret |-> validResult,
              delivered |-> IF result = "SqlOK" THEN << 1 >> ELSE << >>,
              steps |-> 1]

\* The call now in its body, up to its return statement: the handle is held.
EnterCall(method, st, stopAt, result) ==
    /\ outcome.pc = "idle"
    /\ outcome.calls < MaxCalls
    /\ call' = [pc |-> "returning", method |-> method, rows |-> st.rows,
                fault |-> st.fault, stopAt |-> stopAt, crit |-> NoCriteria]
    /\ LET bound == Bind(st, outcome.held)
       IN  outcome' = [pc |-> "returning", ret |-> result.ret,
                       delivered |-> result.delivered, steps |-> result.steps,
                       autoFinal |-> bound.autoFinal, held |-> bound.held,
                       calls |-> outcome.calls + 1]
    /\ UNCHANGED << connVars, depsVars, likeVars >>

EnterQuerySourceAnalysisFingerprint ==
    \E st \in StatementInputs :
        EnterCall("QuerySourceAnalysisFingerprint", st, 0,
                  QuerySourceAnalysisFingerprintResult(st))

EnterQueryBuilderInfoTable ==
    \E st \in StatementInputs, stopAt \in 0..MaxRows :
        EnterCall("QueryBuilderInfoTable", st, stopAt,
                  QueryBuilderInfoTableResult(st, stopAt))

EnterQuerySourcesTable ==
    \E st \in StatementInputs, stopAt \in 0..MaxRows :
        EnterCall("QuerySourcesTable", st, stopAt,
                  BindAndQuery(st, GetResult(st, stopAt)))

\* The return of the call: its locals go out of scope, autoFinal among them.
LeaveCall ==
    /\ outcome.pc = "returning"
    /\ outcome' = [outcome EXCEPT
                     !.pc = "idle",
                     !.held = StatementAutoFinalizerDestructor(outcome.autoFinal,
                                                               outcome.held),
                     !.autoFinal = "null"]
    /\ call' = [call EXCEPT !.pc = "returned"]
    /\ UNCHANGED << connVars, depsVars, likeVars >>

StatementInit ==
    /\ ConnIdle
    /\ call = IdleCall
    /\ outcome = [pc |-> "idle", ret |-> TRUE, delivered |-> << >>, steps |-> 0,
                  autoFinal |-> "null", held |-> 0, calls |-> 0]
    /\ deps = IdleDeps
    /\ cte = IdleCte
    /\ like = IdleLike

StatementNext ==
    \/ EnterQuerySourceAnalysisFingerprint
    \/ EnterQueryBuilderInfoTable
    \/ EnterQuerySourcesTable
    \/ LeaveCall

SpecStatement == StatementInit /\ [][StatementNext]_vars

(***************************************************************************)
(* The recursive dependency resolver: QueryAllProductDependencies as the    *)
(* store evaluates its WITH RECURSIVE statement, one queue step at a time.  *)
(***************************************************************************)
\* The Sources, Jobs and Products rows of the store (the columns the statement
\* reads).  Products 2 and 4 are outputs of two jobs of one source with one
\* sub-id; product 5 belongs to a job that is gone.
SourcesTable ==
    { [SourceID |-> 1, SourceGuid |-> "gA"], [SourceID |-> 2, SourceGuid |-> "gB"],
      [SourceID |-> 3, SourceGuid |-> "gC"] }

JobsTable ==
    { [JobID |-> 1, SourcePK |-> 1], [JobID |-> 2, SourcePK |-> 2],
      [JobID |-> 3, SourcePK |-> 3], [JobID |-> 4, SourcePK |-> 2] }

ProductsTable ==
    { [ProductID |-> 1, JobPK |-> 1, SubID |-> 0],
      [ProductID |-> 2, JobPK |-> 2, SubID |-> 0],
      [ProductID |-> 3, JobPK |-> 3, SubID |-> 0],
      [ProductID |-> 4, JobPK |-> 4, SubID |-> 0],
      [ProductID |-> 5, JobPK |-> 7, SubID |-> 0] }

ProductIDs == { P.ProductID : P \in ProductsTable }

\* An id no product has.
NoProductID == CHOOSE n \in 0..Cardinality(ProductsTable) : n \notin ProductIDs

\* The targets an edge can name, by source GUID and sub-id: the outputs of the
\* three sources, and one no product has.
DependencyTargets ==
    { [guid |-> "gA", subID |-> 0], [guid |-> "gB", subID |-> 0],
      [guid |-> "gC", subID |-> 0], [guid |-> "gX", subID |-> 1] }

\* The rows a ProductDependencies table can hold.
PossibleEdges ==
    { [ProductPK |-> p, DependencySourceGuid |-> t.guid, DependencySubID |-> t.subID] :
        p \in ProductIDs, t \in DependencyTargets }

\* The edges between the outputs of the three sources: the rows that can close
\* a cycle.
CycleEdges ==
    { e \in PossibleEdges :
        /\ \E j \in JobsTable : j.JobID = e.ProductPK /\ j.SourcePK = e.ProductPK
        /\ \E src \in SourcesTable : src.SourceGuid = e.DependencySourceGuid }

\* The ProductDependencies tables of at most n rows out of `rows`.
RECURSIVE EdgeSets(_, _)
EdgeSets(rows, n) ==
    IF n = 0 THEN { {} }
    ELSE LET smaller == EdgeSets(rows, n - 1)
         IN  smaller \cup { S \cup {e} : S \in smaller, e \in rows }

\* LEFT OUTER JOIN Jobs ON Jobs.JobID = P.JobPK
\* LEFT OUTER JOIN Sources ON Sources.SourceID = Jobs.SourcePK:
\* the SourceGuid joined to product P, "NULL" when the join finds none.
JoinedSourceGuid(P) ==
    LET jobs == { j \in JobsTable : j.JobID = P.JobPK }
        sources == { src \in SourcesTable : \E j \in jobs : src.SourceID = j.SourcePK }
    IN  IF sources = {} THEN "NULL" ELSE (CHOOSE src \in sources : TRUE).SourceGuid

\* The recursive-select of the statement with `row` as the only row of
\* allProductDeps: the products joined to a dependency that `row` owns.
RecursiveSelect(edges, row) ==
    { P \in ProductsTable :
        \E d \in edges :
            /\ JoinedSourceGuid(P) = d.DependencySourceGuid
            /\ P.SubID = d.DependencySubID
            /\ d.ProductPK = row.ProductID }

\* The initial-select: SELECT * FROM Products WHERE ProductID = :productid
InitialSelect(productid) == { P \in ProductsTable : P.ProductID = productid }

\* A UNION ALL: every row selected is queued again.
NewRows_UnionAll(queued, selected) == selected

\* UNION: a row is added to the queue only if no identical row was added before.
NewRows(queued, selected) == selected \ queued

\* A step that adds every extracted row to the recursive table, the first too.
AddToTable_NoOffset(table, toSkip, row) == [table |-> Append(table, row), toSkip |-> toSkip]

\* LIMIT -1 OFFSET 1: the first row extracted is processed by the
\* recursive-select but not added to the recursive table.
AddToTable(table, toSkip, row) ==
    IF toSkip > 0 THEN [table |-> table, toSkip |-> toSkip - 1]
    ELSE [table |-> Append(table, row), toSkip |-> toSkip]

\* The orders in which the rows of a set can be queued.
Orders(S) ==
    { q \in [1..Cardinality(S) -> S] : \A i, j \in 1..Cardinality(S) : q[i] = q[j] => i = j }

\* QueryAllProductDependencies(productID, handler): the statement is bound and
\* the store runs its initial-select.
StartAllProductDependencies ==
    /\ deps.pc = "idle"
    /\ cte.pc = "none"
    /\ \E q \in Orders(InitialSelect(deps.root)) :
         cte' = [pc |-> "running", queue |-> q, queued |-> InitialSelect(deps.root),
                 table |-> << >>, toSkip |-> 1, expanded |-> << >>]
    /\ deps' = [deps EXCEPT !.pc = "querying"]
    /\ UNCHANGED << connVars, queryVars, likeVars >>

\* One step of the recursive query: extract a row from the queue, add it to the
\* recursive table, run the recursive-select on it and queue what is new.
RecursiveStep ==
    /\ cte.pc = "running"
    /\ cte.queue # << >>
    /\ Len(cte.expanded) <= Cardinality(ProductsTable)   \* cap on the steps explored
    /\ LET row == Head(cte.queue)
           added == AddToTable(cte.table, cte.toSkip, row)
           new == NewRows(cte.queued, RecursiveSelect(deps.edges, row))
       IN  \E q \in Orders(new) :
             cte' = [cte EXCEPT !.queue = Tail(cte.queue) \o q,
                                !.queued = cte.queued \cup new,
                                !.table = added.table,
                                !.toSkip = added.toSkip,
                                !.expanded = Append(cte.expanded, row)]
    /\ UNCHANGED << deps, connVars, queryVars, likeVars >>

\* The queue is empty: the rows of allProductDeps go through
\* GetProductResultSimple to the handler.
DeliverAllProductDependencies ==
    /\ cte.pc = "running"
    /\ cte.queue = << >>
    /\ \E stopAt \in 0..1 :
       LET st == [rows |-> [i \in 1..Len(cte.table) |->
                               [jobKey |-> "k1", builderGuid |-> "g1",
                                status |-> "Completed"]],
                  fault |-> NoFault]
           result == BindAndQuery(st, GetProductResult(st, stopAt, NoCriteria))
       IN  /\ cte' = [cte EXCEPT !.pc = "done"]
           /\ deps' = [deps EXCEPT !.pc = "done", !.stopAt = stopAt, !.ret = result.ret,
                         !.delivered = [i \in 1..Len(result.delivered) |->
                                           cte.table[result.delivered[i]].ProductID]]
    /\ UNCHANGED << connVars, queryVars, likeVars >>

DepsInit ==
    /\ ConnIdle
    /\ call = IdleCall
    /\ outcome = IdleOutcome
    /\ \E edges \in EdgeSets(PossibleEdges, MaxEdges), root \in ProductIDs \cup {NoProductID} :
         deps = [pc |-> "idle", edges |-> edges, root |-> root, stopAt |-> 0,
                 ret |-> FALSE, delivered |-> << >>]
    /\ cte = IdleCte
    /\ like = IdleLike

DepsNext ==
    \/ StartAllProductDependencies
    \/ RecursiveStep
    \/ DeliverAllProductDependencies

SpecDeps == DepsInit /\ [][DepsNext]_vars

\* The walks over the graphs that can have cycles, from a product that has a job.
DepsCycleInit ==
    /\ ConnIdle
    /\ call = IdleCall
    /\ outcome = IdleOutcome
    /\ \E edges \in EdgeSets(CycleEdges, MaxEdges),
          root \in { e.ProductPK : e \in CycleEdges } :
         deps = [pc |-> "idle", edges |-> edges, root |-> root, stopAt |-> 0,
                 ret |-> FALSE, delivered |-> << >>]
    /\ cte = IdleCte
    /\ like = IdleLike

\* A query that has been started runs on: the call is synchronous, and the store
\* takes the next step of the statement while there is a row in its queue.
SpecDepsFair ==
    /\ DepsCycleInit
    /\ [][DepsNext]_vars
    /\ WF_vars(StartAllProductDependencies)
    /\ WF_vars(RecursiveStep)

(***************************************************************************)
(* The direct dependencies: QueryDirectProductDependencies.                 *)
(***************************************************************************)
\* The rows a ProductDependencies table can hold when the platform of a row is
\* told apart: two rows of one product can name one target.
DirectEdges ==
    { [ProductPK |-> e.ProductPK, DependencySourceGuid |-> e.DependencySourceGuid,
       DependencySubID |-> e.DependencySubID, Platform |-> platform] :
        e \in { d \in PossibleEdges : \E j \in JobsTable : j.JobID = d.ProductPK
                                                           /\ j.SourcePK = d.ProductPK },
        platform \in {"pc", "es3"} }

\* A statement without the where clause: the products joined to any dependency.
QUERY_DIRECT_PRODUCTDEPENDENCIES_STATEMENT_NoWhere(edges, productid) ==
    { [product |-> P, dependency |-> d] : P \in ProductsTable, d \in edges }

\* SELECT * FROM Products LEFT OUTER JOIN Jobs ... LEFT OUTER JOIN Sources ...
\* LEFT OUTER JOIN ProductDependencies ON ... WHERE ProductDependencies.ProductPK
\* = :productid: one row for each product and each dependency row of :productid
\* that names the product's source GUID and sub-id.
QUERY_DIRECT_PRODUCTDEPENDENCIES_STATEMENT(edges, productid) ==
    { r \in [product : ProductsTable, dependency : edges] :
        /\ JoinedSourceGuid(r.product) = r.dependency.DependencySourceGuid
        /\ r.product.SubID = r.dependency.DependencySubID
        /\ r.dependency.ProductPK = productid }

\* QueryDirectProductDependencies(productID, handler): the rows of the statement,
\* in the order the store yields them, go through GetProductResultSimple.
QueryDirectProductDependencies ==
    /\ deps.pc = "idle"
    /\ \E rows \in Orders(QUERY_DIRECT_PRODUCTDEPENDENCIES_STATEMENT(deps.edges, deps.root)),
          stopAt \in 0..1 :
         LET st == [rows |-> [i \in 1..Len(rows) |->
                                 [jobKey |-> "k1", builderGuid |-> "g1",
                                  status |-> "Completed"]],
                    fault |-> NoFault]
             result == BindAndQuery(st, GetProductResult(st, stopAt, NoCriteria))
         IN  deps' = [deps EXCEPT !.pc = "done", !.stopAt = stopAt, !.ret = result.ret,
                        !.delivered = [i \in 1..Len(result.delivered) |->
                                         rows[result.delivered[i]].product.ProductID]]
    /\ UNCHANGED << cte, connVars, queryVars, likeVars >>

DirectInit ==
    /\ ConnIdle
    /\ call = IdleCall
    /\ outcome = IdleOutcome
    /\ \E edges \in EdgeSets(DirectEdges, MaxEdges), root \in ProductIDs \cup {NoProductID} :
         deps = [pc |-> "idle", edges |-> edges, root |-> root, stopAt |-> 0,
                 ret |-> FALSE, delivered |-> << >>]
    /\ cte = IdleCte
    /\ like = IdleLike

DirectNext == QueryDirectProductDependencies

SpecDirect == DirectInit /\ [][DirectNext]_vars

(***************************************************************************)
(* The like searches: GetLikeActualSearchTerm builds the pattern and the    *)
(* store evaluates  SourceName LIKE :sourcename ESCAPE '|'.                 *)
(***************************************************************************)
\* The characters of a literal or a name: a letter in both cases, the two
\* wildcards of LIKE and the escape character.  A string is a sequence of them.
Characters == {"a", "A", "%", "_", "|"}

StringsUpTo(n) == UNION { [1..k -> Characters] : k \in 0..n }

LikeTypes == {"Raw", "StartsWith", "EndsWith", "Matches"}

\* StringFunc::Replace(str, a, b) for a one-character a: every occurrence of a
\* becomes b, and what was put in is not scanned again.
RECURSIVE Replace(_, _, _)
Replace(str, a, b) ==
    IF str = << >> THEN << >>
    ELSE (IF Head(str) = a THEN b ELSE << Head(str) >>) \o Replace(Tail(str), a, b)

GetLikeActualSearchTerm(likeString, likeType) ==
    LET escaped == Replace(Replace(likeString, "%", <<"|", "%">>), "_", <<"|", "_">>)
    IN  CASE likeType = "StartsWith" -> escaped \o <<"%">>
          [] likeType = "EndsWith" -> <<"%">> \o escaped
          [] likeType = "Matches" -> <<"%">> \o escaped \o <<"%">>
          [] OTHER -> likeString

\* LIKE compares letters without regard to case.
Fold(c) == IF c = "A" THEN "a" ELSE c

\* str LIKE pattern ESCAPE '|': '%' matches any run of characters, '_' any one
\* character, the character after a '|' matches itself only, and a pattern
\* that ends in a lone '|' matches nothing.
RECURSIVE SqlLike(_, _)
SqlLike(pattern, str) ==
    IF pattern = << >> THEN str = << >>
    ELSE IF Head(pattern) = "|"
    THEN /\ Len(pattern) >= 2
         /\ str # << >>
         /\ Fold(Head(str)) = Fold(pattern[2])
         /\ SqlLike(SubSeq(pattern, 3, Len(pattern)), Tail(str))
    ELSE IF Head(pattern) = "%"
    THEN \E k \in 1..(Len(str) + 1) : SqlLike(Tail(pattern), SubSeq(str, k, Len(str)))
    ELSE IF Head(pattern) = "_"
    THEN str # << >> /\ SqlLike(Tail(pattern), Tail(str))
    ELSE /\ str # << >>
         /\ Fold(Head(str)) = Fold(Head(pattern))
         /\ SqlLike(Tail(pattern), Tail(str))

\* QuerySourceLikeSourceName(likeSourceName, likeType, handler) against a row
\* named like.name: the search term is built and bound, and the row is handed
\* to the handler if the store finds that its name is like the term.
QuerySourceLikeSourceName ==
    /\ like.pc = "idle"
    /\ LET actualSearchTerm == GetLikeActualSearchTerm(like.likeString, like.likeType)
       IN  like' = [like EXCEPT !.pc = "done",
                                !.actualSearchTerm = actualSearchTerm,
                                !.matched = SqlLike(actualSearchTerm, like.name)]
    /\ UNCHANGED << connVars, queryVars, depsVars >>

LikeInit ==
    /\ ConnIdle
    /\ call = IdleCall
    /\ outcome = IdleOutcome
    /\ deps = IdleDeps
    /\ cte = IdleCte
    /\ \E likeString \in StringsUpTo(MaxLiteral), likeType \in LikeTypes,
          name \in StringsUpTo(MaxName) :
         like = [pc |-> "idle", likeString |-> likeString, likeType |-> likeType,
                 name |-> name, actualSearchTerm |-> << >>, matched |-> FALSE]

LikeNext == QuerySourceLikeSourceName

SpecLike == LikeInit /\ [][LikeNext]_vars

(***************************************************************************)
(* The combined queries: the statements that join Products, Jobs, Sources   *)
(* and ScanFolders, and the methods that pick the statement with or         *)
(* without the platform.                                                    *)
(***************************************************************************)
Platforms == {"pc", "es3"}

\* A platform argument: a null pointer, an empty string or a platform.
PlatformArgs == {"null", ""} \cup Platforms

ScanFolderIDs == {1, 2}
SourceIDs == {1, 2}
JobIDs == {1, 2}
CombinedProductIDs == {1, 2}
Guids == {"gA", "gB", "gL"}

\* The id of a column that holds no row's value.
NoID == CHOOSE n \in 0..Cardinality(ScanFolderIDs) : n \notin ScanFolderIDs

SourceNames == << <<"a">>, <<"A", "a">> >>
SourceGuids == << "gA", "gB" >>
ProductNames == << <<"a">>, <<"a", "A">> >>

\* The stores drawn in Init: the two scan folders, two sources of which the
\* first lies in either scan folder, two jobs, each of either source and for
\* either platform, and up to two products, each of either job.
Databases ==
    [ScanFolderPK : { f \in [SourceIDs -> ScanFolderIDs] : f[2] = 1 },
     Jobs : [JobIDs -> [SourcePK : SourceIDs, Platform : Platforms]],
     Products : [CombinedProductIDs ->
                    {[present |-> FALSE, JobPK |-> 1, LegacyGuid |-> "gL"]}
                        \cup [present : {TRUE}, JobPK : JobIDs,
                              LegacyGuid : {"gA", "gL"}]]]

ScanFolders(db) == { [ScanFolderID |-> i] : i \in ScanFolderIDs }

Sources(db) ==
    { [SourceID |-> i, ScanFolderPK |-> db.ScanFolderPK[i],
       SourceName |-> SourceNames[i], SourceGuid |-> SourceGuids[i]] : i \in SourceIDs }

Jobs(db) ==
    { [JobID |-> i, SourcePK |-> db.Jobs[i].SourcePK, Platform |-> db.Jobs[i].Platform,
       jobKey |-> "k1", JobRunKey |-> 1, builderGuid |-> "g1", status |-> "Completed"] :
          i \in JobIDs }

Products(db) ==
    { [ProductID |-> i, JobPK |-> db.Products[i].JobPK, SubID |-> 0,
       ProductName |-> ProductNames[i], LegacyGuid |-> db.Products[i].LegacyGuid] :
          i \in { p \in CombinedProductIDs : db.Products[p].present } }

\* A row of a join: the columns of the four tables that
\* CombinedDatabaseEntry::GetColumns binds.
CombinedRow(F, S, J, P) ==
    [ScanFolderID |-> F.ScanFolderID,
     SourceID |-> S.SourceID, ScanFolderPK |-> S.ScanFolderPK,
     SourceName |-> S.SourceName, SourceGuid |-> S.SourceGuid,
     JobID |-> J.JobID, SourcePK |-> J.SourcePK, Platform |-> J.Platform,
     jobKey |-> J.jobKey, builderGuid |-> J.builderGuid, status |-> J.status,
     ProductID |-> P.ProductID, JobPK |-> P.JobPK, SubID |-> P.SubID,
     ProductName |-> P.ProductName, LegacyGuid |-> P.LegacyGuid]

\* The row a LEFT OUTER JOIN keeps when no row of the right table matches.
NullScanFolder == [ScanFolderID |-> NoID]

\* "Products LEFT JOIN Jobs ON Jobs.JobID = Products.JobPK INNER JOIN Sources ON
\* Sources.SourceID = Jobs.SourcePK INNER JOIN ScanFolders ON
\* ScanFolders.ScanFolderID = Sources.ScanFolderPK", and the same joins written
\* from Sources: the inner joins on its columns drop a product without a job.
JoinOnScanFolderPK(db) ==
    { CombinedRow(t[1], t[2], t[3], t[4]) :
        t \in { u \in ScanFolders(db) \X Sources(db) \X Jobs(db) \X Products(db) :
                  /\ u[3].JobID = u[4].JobPK
                  /\ u[2].SourceID = u[3].SourcePK
                  /\ u[1].ScanFolderID = u[2].ScanFolderPK } }

\* "Sources LEFT JOIN Jobs ON Sources.SourceID = Jobs.SourcePK INNER JOIN
\* Products ON Jobs.JobID = Products.JobPK": no ScanFolders column in the rows.
JoinWithoutScanFolders(db) ==
    { CombinedRow(NullScanFolder, t[1], t[2], t[3]) :
        t \in { u \in Sources(db) \X Jobs(db) \X Products(db) :
                  /\ u[2].JobID = u[3].JobPK
                  /\ u[1].SourceID = u[2].SourcePK } }

\* "Products LEFT OUTER JOIN Jobs ON Jobs.JobID = Products.JobPK LEFT OUTER JOIN
\* Sources ON Sources.SourceID = Jobs.SourcePK LEFT OUTER JOIN ScanFolders ON
\* ScanFolders.ScanFolderID = Sources.SourceID".  Every product of the stores
\* drawn has its job and every job its source.
JoinOnSourceID(db) ==
    { CombinedRow(IF \E F \in ScanFolders(db) : F.ScanFolderID = t[1].SourceID
                      THEN CHOOSE F \in ScanFolders(db) : F.ScanFolderID = t[1].SourceID
                  ELSE NullScanFolder,
                  t[1], t[2], t[3]) :
        t \in { u \in Sources(db) \X Jobs(db) \X Products(db) :
                  /\ u[2].JobID = u[3].JobPK
                  /\ u[1].SourceID = u[2].SourcePK } }

\* The value of a named parameter of a statement: what was bound to it, and
\* NULL for a name nothing was bound to.
Param(bound, name) == IF name \in DOMAIN bound THEN bound[name] ELSE "NULL"

\* a = b and a OR b of the store, three-valued.
SqlEqual(a, b) ==
    IF a = "NULL" \/ b = "NULL" THEN "NULL" ELSE IF a = b THEN "TRUE" ELSE "FALSE"

SqlOr(a, b) ==
    IF a = "TRUE" \/ b = "TRUE" THEN "TRUE"
    ELSE IF a = "NULL" \/ b = "NULL" THEN "NULL"
    ELSE "FALSE"

QUERY_COMBINED_BY_SOURCEID_STATEMENT(db, bound) ==
    { r \in JoinOnScanFolderPK(db) : r.SourceID = Param(bound, "sourceid") }

QUERY_COMBINED_BY_SOURCEID_PLATFORM_STATEMENT(db, bound) ==
    { r \in JoinOnScanFolderPK(db) :
        r.SourceID = Param(bound, "sourceid") /\ r.Platform = Param(bound, "platform") }

QUERY_COMBINED_BY_PRODUCTID_STATEMENT(db, bound) ==
    { r \in JoinOnScanFolderPK(db) : r.ProductID = Param(bound, "productid") }

QUERY_COMBINED_BY_PRODUCTID_PLATFORM_STATEMENT(db, bound) ==
    { r \in JoinOnScanFolderPK(db) :
        r.ProductID = Param(bound, "productid") /\ r.Platform = Param(bound, "platform") }

QUERY_COMBINED_BY_SOURCEGUID_PRODUCTSUBID_STATEMENT(db, bound) ==
    { r \in JoinOnScanFolderPK(db) :
        /\ r.SubID = Param(bound, "productsubid")
        /\ SqlOr(SqlEqual(r.SourceGuid, Param(bound, "sourceguid")),
                 SqlEqual(r.LegacyGuid, Param(bound, "sourceguid"))) = "TRUE" }

\* The legacy GUID is compared with the parameter :soruceguid.
QUERY_COMBINED_BY_SOURCEGUID_PRODUCTSUBID_PLATFORM_STATEMENT(db, bound) ==
    { r \in JoinOnScanFolderPK(db) :
        /\ r.SubID = Param(bound, "productsubid")
        /\ SqlOr(SqlEqual(r.SourceGuid, Param(bound, "sourceguid")),
                 SqlEqual(r.LegacyGuid, Param(bound, "soruceguid"))) = "TRUE"
        /\ r.Platform = Param(bound, "platform") }

QUERY_COMBINED_BY_SOURCENAME_STATEMENT(db, bound) ==
    { r \in JoinOnScanFolderPK(db) : r.SourceName = Param(bound, "sourcename") }

QUERY_COMBINED_BY_SOURCENAME_PLATFORM_STATEMENT(db, bound) ==
    { r \in JoinOnScanFolderPK(db) :
        r.Platform = Param(bound, "platform") /\ r.SourceName = Param(bound, "sourcename") }

QUERY_COMBINED_LIKE_SOURCENAME_STATEMENT(db, bound) ==
    { r \in JoinOnScanFolderPK(db) : SqlLike(Param(bound, "sourcename"), r.SourceName) }

QUERY_COMBINED_LIKE_SOURCENAME_PLATFORM_STATEMENT(db, bound) ==
    { r \in JoinWithoutScanFolders(db) :
        /\ r.Platform = Param(bound, "platform")
        /\ SqlLike(Param(bound, "sourcename"), r.SourceName) }

QUERY_COMBINED_BY_PRODUCTNAME_STATEMENT(db, bound) ==
    { r \in JoinOnSourceID(db) : r.ProductName = Param(bound, "productname") }

\* The WHERE clause of QUERY_COMBINED_BY_PRODUCTNAME_PLATFORM_STATEMENT, word by
\* word: the literal that ends in "AND" runs into the literal that begins with
\* "Jobs.Platform".
QUERY_COMBINED_BY_PRODUCTNAME_PLATFORM_WHERE ==
    << "Products.ProductName", "=", ":productname", "ANDJobs.Platform", "=", ":platform" >>

\* The rows the WHERE clause was written to select.
QUERY_COMBINED_BY_PRODUCTNAME_PLATFORM_STATEMENT(db, bound) ==
    { r \in JoinOnSourceID(db) :
        r.ProductName = Param(bound, "productname") /\ r.Platform = Param(bound, "platform") }

QUERY_COMBINED_LIKE_PRODUCTNAME_STATEMENT(db, bound) ==
    { r \in JoinOnScanFolderPK(db) : SqlLike(Param(bound, "productname"), r.ProductName) }

QUERY_COMBINED_LIKE_PRODUCTNAME_PLATFORM_STATEMENT(db, bound) ==
    { r \in JoinOnScanFolderPK(db) :
        /\ r.Platform = Param(bound, "platform")
        /\ SqlLike(Param(bound, "productname"), r.ProductName) }

\* A WHERE clause the store can prepare: comparisons with AND between them.
RECURSIVE IsConjunction(_)
IsConjunction(words) ==
    /\ Len(words) >= 3
    /\ words[2] = "="
    /\ \/ Len(words) = 3
       \/ /\ Len(words) > 4
          /\ words[4] = "AND"
          /\ IsConjunction(SubSeq(words, 5, Len(words)))

\* platform && strlen(platform)
HasPlatform(platform) == platform # "null" /\ platform # ""

\* The rows of a statement in the order the store yields them.
RowOrder(rows) == CHOOSE q \in Orders(rows) : TRUE

\* BindAndThen(...).Query(GetCombinedResultAsLambda(), builderGuid, jobKey,
\* status) with the default criteria and a handler that takes every row: the
\* rows handed to the handler and the value returned.  A statement the store
\* could not prepare cannot be bound; missing says that the rows lack columns
\* the combined entry binds, and fetchFails whether the fetch of such a row
\* fails.
QueryCombinedRows(rows, prepared, missing, fetchFails) ==
    LET st == [rows |-> RowOrder(rows),
               fault |-> IF ~prepared THEN [kind |-> "bind", at |-> 0]
                         ELSE IF missing /\ fetchFails /\ rows # {}
                             THEN [kind |-> "fetch", at |-> 1]
                         ELSE NoFault]
        o == BindAndQuery(st, GetCombinedResult(st, 0, NoCriteria))
    IN  [pc |-> "done", ret |-> o.ret,
         rows |-> [i \in 1..Len(o.delivered) |-> st.rows[o.delivered[i]]]]

QueryCombinedBySourceIDRows(db, sourceID, platform) ==
    IF HasPlatform(platform)
        THEN QueryCombinedRows(QUERY_COMBINED_BY_SOURCEID_PLATFORM_STATEMENT(db,
                 [sourceid |-> sourceID, platform |-> platform]), TRUE, FALSE, FALSE)
    ELSE QueryCombinedRows(QUERY_COMBINED_BY_SOURCEID_STATEMENT(db,
             [sourceid |-> sourceID]), TRUE, FALSE, FALSE)

QueryCombinedByProductIDRows(db, productID, platform) ==
    IF HasPlatform(platform)
        THEN QueryCombinedRows(QUERY_COMBINED_BY_PRODUCTID_PLATFORM_STATEMENT(db,
                 [productid |-> productID, platform |-> platform]), TRUE, FALSE, FALSE)
    ELSE QueryCombinedRows(QUERY_COMBINED_BY_PRODUCTID_STATEMENT(db,
             [productid |-> productID]), TRUE, FALSE, FALSE)

QueryCombinedBySourceGuidProductSubIdRows(db, sourceGuid, productSubID, platform) ==
    IF HasPlatform(platform)
        THEN QueryCombinedRows(QUERY_COMBINED_BY_SOURCEGUID_PRODUCTSUBID_PLATFORM_STATEMENT(db,
                 [productsubid |-> productSubID, sourceguid |-> sourceGuid,
                  platform |-> platform]), TRUE, FALSE, FALSE)
    ELSE QueryCombinedRows(QUERY_COMBINED_BY_SOURCEGUID_PRODUCTSUBID_STATEMENT(db,
             [productsubid |-> productSubID, sourceguid |-> sourceGuid]),
             TRUE, FALSE, FALSE)

QueryCombinedBySourceNameRows(db, exactSourceName, platform) ==
    IF HasPlatform(platform)
        THEN QueryCombinedRows(QUERY_COMBINED_BY_SOURCENAME_PLATFORM_STATEMENT(db,
                 [sourcename |-> exactSourceName, platform |-> platform]),
                 TRUE, FALSE, FALSE)
    ELSE QueryCombinedRows(QUERY_COMBINED_BY_SOURCENAME_STATEMENT(db,
             [sourcename |-> exactSourceName]), TRUE, FALSE, FALSE)

QueryCombinedLikeSourceNameRows(db, likeSourceName, likeType, platform, fetchFails) ==
    LET actualSearchTerm == GetLikeActualSearchTerm(likeSourceName, likeType)
    IN  IF HasPlatform(platform)
            THEN QueryCombinedRows(QUERY_COMBINED_LIKE_SOURCENAME_PLATFORM_STATEMENT(db,
                     [sourcename |-> actualSearchTerm, platform |-> platform]),
                     TRUE, TRUE, fetchFails)
        ELSE QueryCombinedRows(QUERY_COMBINED_LIKE_SOURCENAME_STATEMENT(db,
                 [sourcename |-> actualSearchTerm]), TRUE, FALSE, FALSE)

QueryCombinedByProductNameRows(db, exactProductName, platform) ==
    IF HasPlatform(platform)
        THEN QueryCombinedRows(QUERY_COMBINED_BY_PRODUCTNAME_PLATFORM_STATEMENT(db,
                 [productname |-> exactProductName, platform |-> platform]),
                 IsConjunction(QUERY_COMBINED_BY_PRODUCTNAME_PLATFORM_WHERE),
                 FALSE, FALSE)
    ELSE QueryCombinedRows(QUERY_COMBINED_BY_PRODUCTNAME_STATEMENT(db,
             [productname |-> exactProductName]), TRUE, FALSE, FALSE)

QueryCombinedLikeProductNameRows(db, likeProductName, likeType, platform) ==
    LET actualSearchTerm == GetLikeActualSearchTerm(likeProductName, likeType)
    IN  IF HasPlatform(platform)
            THEN QueryCombinedRows(QUERY_COMBINED_LIKE_PRODUCTNAME_PLATFORM_STATEMENT(db,
                     [productname |-> actualSearchTerm, platform |-> platform]),
                     TRUE, FALSE, FALSE)
        ELSE QueryCombinedRows(QUERY_COMBINED_LIKE_PRODUCTNAME_STATEMENT(db,
                 [productname |-> actualSearchTerm]), TRUE, FALSE, FALSE)

\* QueryScanFolderByProductID(productID, handler): the scan folders handed to
\* the handler, and found && succeeded.
QueryScanFolderByProductIDRows(db, productID) ==
    LET combined == QueryCombinedBySourceIDRows(db, productID, "null")
        found == combined.rows # << >>
        succeeded == combined.ret
    IN  [pc |-> "done", ret |-> found /\ succeeded,
         rows |-> [i \in 1..Len(combined.rows) |->
                     [ScanFolderID |-> combined.rows[i].ScanFolderID]]]

\* The arguments of the calls drawn in Init, method by method.
CombinedArgs ==
    [method : {"QueryCombinedBySourceID"}, id : SourceIDs, name : {<< "a" >>},
     likeType : {"Raw"}, guid : {"gA"}, subid : {0}, platform : PlatformArgs,
     fetchFails : {FALSE}]
    \cup [method : {"QueryCombinedByProductID"}, id : CombinedProductIDs,
          name : {<< "a" >>}, likeType : {"Raw"}, guid : {"gA"}, subid : {0},
          platform : PlatformArgs, fetchFails : {FALSE}]
    \cup [method : {"QueryScanFolderByProductID"}, id : CombinedProductIDs,
          name : {<< "a" >>}, likeType : {"Raw"}, guid : {"gA"}, subid : {0},
          platform : {"null"}, fetchFails : {FALSE}]
    \cup [method : {"QueryCombinedBySourceGuidProductSubId"}, id : {1},
          name : {<< "a" >>}, likeType : {"Raw"}, guid : {"gA", "gB"}, subid : {0, 1},
          platform : PlatformArgs, fetchFails : {FALSE}]
    \cup [method : {"QueryCombinedBySourceName"}, id : {1},
          name : {SourceNames[1], SourceNames[2]}, likeType : {"Raw"}, guid : {"gA"},
          subid : {0}, platform : PlatformArgs, fetchFails : {FALSE}]
    \cup [method : {"QueryCombinedLikeSourceName"}, id : {1}, name : {<< "a" >>},
          likeType : {"Raw", "StartsWith"}, guid : {"gA"}, subid : {0},
          platform : PlatformArgs, fetchFails : BOOLEAN]
    \cup [method : {"QueryCombinedByProductName"}, id : {1},
          name : {ProductNames[1], ProductNames[2]}, likeType : {"Raw"}, guid : {"gA"},
          subid : {0}, platform : PlatformArgs, fetchFails : {FALSE}]
    \cup [method : {"QueryCombinedLikeProductName"}, id : {1}, name : {<< "a" >>},
          likeType : {"Raw", "StartsWith"}, guid : {"gA"}, subid : {0},
          platform : PlatformArgs, fetchFails : {FALSE}]

\* What a call of the combined queries hands back.
CombinedResult(c) ==
    CASE c.method = "QueryCombinedBySourceID" ->
             QueryCombinedBySourceIDRows(c.db, c.args.id, c.args.platform)
      [] c.method = "QueryCombinedByProductID" ->
             QueryCombinedByProductIDRows(c.db, c.args.id, c.args.platform)
      [] c.method = "QueryScanFolderByProductID" ->
             QueryScanFolderByProductIDRows(c.db, c.args.id)
      [] c.method = "QueryCombinedBySourceGuidProductSubId" ->
             QueryCombinedBySourceGuidProductSubIdRows(c.db, c.args.guid, c.args.subid,
                                                       c.args.platform)
      [] c.method = "QueryCombinedBySourceName" ->
             QueryCombinedBySourceNameRows(c.db, c.args.name, c.args.platform)
      [] c.method = "QueryCombinedLikeSourceName" ->
             QueryCombinedLikeSourceNameRows(c.db, c.args.name, c.args.likeType,
                                             c.args.platform, c.args.fetchFails)
      [] c.method = "QueryCombinedByProductName" ->
             QueryCombinedByProductNameRows(c.db, c.args.name, c.args.platform)
      [] c.method = "QueryCombinedLikeProductName" ->
             QueryCombinedLikeProductNameRows(c.db, c.args.name, c.args.likeType,
                                              c.args.platform)

QueryCombinedBySourceID ==
    /\ Run("QueryCombinedBySourceID")
    /\ outcome' = CombinedResult(call)
    /\ UNCHANGED << connVars, depsVars, likeVars >>

QueryCombinedByProductID ==
    /\ Run("QueryCombinedByProductID")
    /\ outcome' = CombinedResult(call)
    /\ UNCHANGED << connVars, depsVars, likeVars >>

QueryScanFolderByProductID ==
    /\ Run("QueryScanFolderByProductID")
    /\ outcome' = CombinedResult(call)
    /\ UNCHANGED << connVars, depsVars, likeVars >>

QueryCombinedBySourceGuidProductSubId ==
    /\ Run("QueryCombinedBySourceGuidProductSubId")
    /\ outcome' = CombinedResult(call)
    /\ UNCHANGED << connVars, depsVars, likeVars >>

QueryCombinedBySourceName ==
    /\ Run("QueryCombinedBySourceName")
    /\ outcome' = CombinedResult(call)
    /\ UNCHANGED << connVars, depsVars, likeVars >>

QueryCombinedLikeSourceName ==
    /\ Run("QueryCombinedLikeSourceName")
    /\ outcome' = CombinedResult(call)
    /\ UNCHANGED << connVars, depsVars, likeVars >>

QueryCombinedByProductName ==
    /\ Run("QueryCombinedByProductName")
    /\ outcome' = CombinedResult(call)
    /\ UNCHANGED << connVars, depsVars, likeVars >>

QueryCombinedLikeProductName ==
    /\ Run("QueryCombinedLikeProductName")
    /\ outcome' = CombinedResult(call)
    /\ UNCHANGED << connVars, depsVars, likeVars >>

CombinedInit ==
    /\ ConnIdle
    /\ \E db \in Databases, args \in CombinedArgs :
         call = [pc |-> "idle", method |-> args.method, db |-> db, args |-> args]
    /\ outcome = IdleOutcome
    /\ deps = IdleDeps
    /\ cte = IdleCte
    /\ like = IdleLike

CombinedNext ==
    \/ QueryCombinedBySourceID
    \/ QueryCombinedByProductID
    \/ QueryScanFolderByProductID
    \/ QueryCombinedBySourceGuidProductSubId
    \/ QueryCombinedBySourceName
    \/ QueryCombinedLikeSourceName
    \/ QueryCombinedByProductName
    \/ QueryCombinedLikeProductName

SpecCombined == CombinedInit /\ [][CombinedNext]_vars

(***************************************************************************)
(* The job infos: QueryJobInfoByJobRunKey and QueryJobInfoByJobKey, which   *)
(* look up the source (and the scan folder) of each job inside the handler  *)
(* of the job query.                                                        *)
(***************************************************************************)
\* The id of a source the Sources table holds no row of.
MissingSourceID == CHOOSE n \in 1..(Cardinality(SourceIDs) + 1) : n \notin SourceIDs

\* The stores drawn in Init: the Source row of a job may be missing, and a job
\* may have products or none.
JobInfoDatabases ==
    [ScanFolderPK : { f \in [SourceIDs -> ScanFolderIDs] : f[1] = 1 /\ f[2] = 1 },
     Jobs : [JobIDs -> [SourcePK : SourceIDs \cup {MissingSourceID}, Platform : {"pc"}]],
     Products : [CombinedProductIDs ->
                    {[present |-> FALSE, JobPK |-> 1, LegacyGuid |-> "gL"]}
                        \cup [present : {TRUE}, JobPK : JobIDs, LegacyGuid : {"gL"}]]]

\* The rows of the Jobs table in the order the store yields them.
JobRows(db) == [i \in JobIDs |-> CHOOSE J \in Jobs(db) : J.JobID = i]

\* QueryJobByJobRunKey and QueryJobByJobKey: the rows the job handler is
\* called with, until it returns false.
QUERY_JOB_BY_JOBRUNKEY_STATEMENT(db, jobrunkey) ==
    SelectSeq(JobRows(db), LAMBDA J : J.JobRunKey = jobrunkey)

QUERY_JOB_BY_JOBKEY_STATEMENT(db, jobKey) ==
    SelectSeq(JobRows(db), LAMBDA J : J.jobKey = jobKey)

\* QuerySourceBySourceID: the rows the source handler is called with.
QUERY_SOURCE_BY_SOURCEID_STATEMENT(db, sourceid) ==
    { S \in Sources(db) : S.SourceID = sourceid }

\* The locals of a job info query while the job query runs: found, the job
\* infos handed to the caller's handler, the next row of the job query, and
\* whether the job handler has returned false.
JobInfoStart == [found |-> FALSE, delivered |-> << >>, k |-> 1, stopped |-> FALSE]

\* The job handler of QueryJobInfoByJobRunKey on the k-th row.
JobRunKeyHandler(db, entry, stopAt, s) ==
    LET sources == QUERY_SOURCE_BY_SOURCEID_STATEMENT(db, entry.SourcePK)
        found == s.found \/ sources # {}
        m_sourceFile == IF sources = {} THEN << >>
                        ELSE (CHOOSE S \in sources : TRUE).SourceName
        delivered == Append(s.delivered, [JobID |-> entry.JobID,
                                          m_sourceFile |-> m_sourceFile,
                                          m_watchFolder |-> NoID])
    IN  IF ~found THEN [s EXCEPT !.k = s.k + 1, !.stopped = TRUE]
        ELSE [found |-> found, delivered |-> delivered, k |-> s.k + 1,
              stopped |-> ~HandlerContinues(stopAt, Len(delivered))]

\* The job handler of QueryJobInfoByJobKey on the k-th row: the scan folder is
\* asked for with QueryScanFolderBySourceID, whose handler sets found.
JobKeyHandler(db, entry, stopAt, s) ==
    LET sources == QUERY_SOURCE_BY_SOURCEID_STATEMENT(db, entry.SourcePK)
        combined == IF sources = {} THEN << >>
                    ELSE QueryCombinedBySourceIDRows(db,
                             (CHOOSE S \in sources : TRUE).SourceID, "null").rows
        found == s.found \/ combined # << >>
        m_sourceFile == IF sources = {} THEN << >>
                        ELSE (CHOOSE S \in sources : TRUE).SourceName
        m_watchFolder == IF combined = << >> THEN NoID ELSE combined[1].ScanFolderID
        delivered == Append(s.delivered, [JobID |-> entry.JobID,
                                          m_sourceFile |-> m_sourceFile,
                                          m_watchFolder |-> m_watchFolder])
    IN  IF ~found THEN [s EXCEPT !.k = s.k + 1, !.stopped = TRUE]
        ELSE [found |-> found, delivered |-> delivered, k |-> s.k + 1,
              stopped |-> ~HandlerContinues(stopAt, Len(delivered))]

\* GetJobResult over the rows of the job query with one of the two handlers.
RECURSIVE JobInfoLoop(_, _, _, _, _)
JobInfoLoop(method, db, jobs, stopAt, s) ==
    IF s.stopped \/ s.k > Len(jobs) THEN s
    ELSE JobInfoLoop(method, db, jobs, stopAt,
             IF method = "QueryJobInfoByJobRunKey"
                 THEN JobRunKeyHandler(db, jobs[s.k], stopAt, s)
             ELSE JobKeyHandler(db, jobs[s.k], stopAt, s))

\* return found && succeeded; the job query succeeds when the store does.
QueryJobInfoByJobRunKeyResult(db, jobRunKey, stopAt) ==
    LET s == JobInfoLoop("QueryJobInfoByJobRunKey", db,
                         QUERY_JOB_BY_JOBRUNKEY_STATEMENT(db, jobRunKey), stopAt,
                         JobInfoStart)
        succeeded == TRUE
    IN  [pc |-> "done", ret |-> s.found /\ succeeded, delivered |-> s.delivered]

QueryJobInfoByJobKeyResult(db, jobKey, stopAt) ==
    LET s == JobInfoLoop("QueryJobInfoByJobKey", db,
                         QUERY_JOB_BY_JOBKEY_STATEMENT(db, jobKey), stopAt, JobInfoStart)
        succeeded == TRUE
    IN  [pc |-> "done", ret |-> s.found /\ succeeded, delivered |-> s.delivered]

QueryJobInfoByJobRunKey ==
    /\ Run("QueryJobInfoByJobRunKey")
    /\ outcome' = QueryJobInfoByJobRunKeyResult(call.db, call.jobRunKey, call.stopAt)
    /\ UNCHANGED << connVars, depsVars, likeVars >>

QueryJobInfoByJobKey ==
    /\ Run("QueryJobInfoByJobKey")
    /\ outcome' = QueryJobInfoByJobKeyResult(call.db, call.jobKey, call.stopAt)
    /\ UNCHANGED << connVars, depsVars, likeVars >>

JobInfoInit ==
    /\ ConnIdle
    /\ call \in [pc : {"idle"},
                 method : {"QueryJobInfoByJobRunKey", "QueryJobInfoByJobKey"},
                 db : JobInfoDatabases, jobRunKey : {1, 2}, jobKey : JobKeys,
                 stopAt : 0..Cardinality(JobIDs)]
    /\ outcome = IdleOutcome
    /\ deps = IdleDeps
    /\ cte = IdleCte
    /\ like = IdleLike

JobInfoNext == QueryJobInfoByJobRunKey \/ QueryJobInfoByJobKey

SpecJobInfo == JobInfoInit /\ [][JobInfoNext]_vars

(***************************************************************************)
(* The source dependencies: QuerySourceDependencyByDependsOnSource and the  *)
(* wildcard query it hands a like-match request to.                         *)
(***************************************************************************)
\* TypeOfDependency, as the set of the bits of each value.
DEP_SourceToSource == {"SourceToSource"}
DEP_JobToJob == {"JobToJob"}
DEP_SourceLikeMatch == {"SourceLikeMatch"}
DEP_SourceOrJob == DEP_SourceToSource \cup DEP_JobToJob
DEP_Any == DEP_SourceToSource \cup DEP_JobToJob \cup DEP_SourceLikeMatch

\* The types a row is stored with, and the types a query can ask for.
StoredTypes == {DEP_SourceToSource, DEP_JobToJob, DEP_SourceLikeMatch}
RequestedTypes == StoredTypes \cup {DEP_SourceOrJob, DEP_Any}

\* a & b of the store and of the code, as a condition: some bit is in both.
BitAnd(a, b) == a \cap b # {}

\* The rows of the SourceDependency table.
SourceDependencyRows ==
    [Source : {<< "a" >>}, DependsOnSource : {<< "a" >>, << "%" >>},
     TypeOfDependency : StoredTypes]

QUERY_SOURCEDEPENDENCY_BY_DEPENDSONSOURCE_STATEMENT(table, dependsOnSource, dependentFilter, typeOfDependency) ==
    SelectSeq(table, LAMBDA row :
        /\ row.DependsOnSource = dependsOnSource
        /\ BitAnd(row.TypeOfDependency, typeOfDependency)
        /\ SqlLike(dependentFilter, row.Source))

QUERY_SOURCEDEPENDENCY_BY_DEPENDSONSOURCE_WILDCARD_STATEMENT(table, dependsOnSource, dependentFilter, typeOfDependency, wildCardDependency) ==
    SelectSeq(table, LAMBDA row :
        /\ \/ /\ BitAnd(row.TypeOfDependency, typeOfDependency)
              /\ row.DependsOnSource = dependsOnSource
           \/ /\ row.TypeOfDependency = wildCardDependency
              /\ SqlLike(row.DependsOnSource, dependsOnSource)
        /\ SqlLike(dependentFilter, row.Source))

\* dependentFilter == nullptr ? "%" : dependentFilter
FilterOrAll(dependentFilter) == IF dependentFilter.null THEN << "%" >> ELSE dependentFilter.str

\* The rows GetSourceDependencyResult hands to a handler that takes every row.
SourceDependencyResult(rows) ==
    LET st == [rows |-> rows, fault |-> NoFault]
        o == BindAndQuery(st, GetResult(st, 0))
    IN  [pc |-> "done", ret |-> o.ret,
         rows |-> [i \in 1..Len(o.delivered) |-> rows[o.delivered[i]]]]

QuerySourceDependencyByDependsOnSourceWildcardResult(table, dependsOnSource, dependentFilter) ==
    LET matchDependency == DEP_SourceOrJob
        wildcardDependency == DEP_SourceLikeMatch
    IN  SourceDependencyResult(
            QUERY_SOURCEDEPENDENCY_BY_DEPENDSONSOURCE_WILDCARD_STATEMENT(table,
                dependsOnSource, FilterOrAll(dependentFilter), matchDependency,
                wildcardDependency))

QuerySourceDependencyByDependsOnSourceResult(table, dependsOnSource, dependentFilter, dependencyType) ==
    IF BitAnd(dependencyType, DEP_SourceLikeMatch)
        THEN QuerySourceDependencyByDependsOnSourceWildcardResult(table, dependsOnSource,
                                                                  dependentFilter)
    ELSE SourceDependencyResult(
             QUERY_SOURCEDEPENDENCY_BY_DEPENDSONSOURCE_STATEMENT(table, dependsOnSource,
                 FilterOrAll(dependentFilter), dependencyType))

QuerySourceDependencyByDependsOnSource ==
    /\ Run("QuerySourceDependencyByDependsOnSource")
    /\ outcome' = QuerySourceDependencyByDependsOnSourceResult(call.table,
                      call.dependsOnSource, call.dependentFilter, call.dependencyType)
    /\ UNCHANGED << connVars, depsVars, likeVars >>

SourceDependencyInit ==
    /\ ConnIdle
    /\ call \in [pc : {"idle"}, method : {"QuerySourceDependencyByDependsOnSource"},
                 table : UNION { [1..n -> SourceDependencyRows] : n \in 0..MaxRows },
                 dependsOnSource : {<< "a" >>, << "A" >>},
                 dependentFilter : {[null |-> TRUE, str |-> << >>],
                                    [null |-> FALSE, str |-> << "a" >>]},
                 dependencyType : RequestedTypes]
    /\ outcome = IdleOutcome
    /\ deps = IdleDeps
    /\ cte = IdleCte
    /\ like = IdleLike

SourceDependencyNext == QuerySourceDependencyByDependsOnSource

SpecSourceDependency == SourceDependencyInit /\ [][SourceDependencyNext]_vars

(***************************************************************************)
(* GraphCanvasTreeItem: items that are registered with no model, their      *)
(* parent pointers and their child lists.                                   *)
(***************************************************************************)
TreeItems == {"a", "b", "c"}

\* The null parent pointer.
NoItem == "nullptr"

\* m_childItems.erase(m_childItems.begin() + i), rows counted from 1
Erase(list, i) == SubSeq(list, 1, i - 1) \o SubSeq(list, i + 1, Len(list))

\* The row of the first entry of the list that is the item, 0 if there is none.
RowOf(list, item) ==
    IF \E i \in 1..Len(list) : list[i] = item
        THEN CHOOSE i \in 1..Len(list) :
                 list[i] = item /\ \A j \in 1..(i - 1) : list[j] # item
    ELSE 0

\* m_childItems.insert(insertPoint, item)
Insert(list, row, item) ==
    SubSeq(list, 1, row - 1) \o << item >> \o SubSeq(list, row, Len(list))

\* x->RemoveParent(item), with no model to clear
RemoveParent(t, x, item) ==
    IF t.m_parent[x] = item THEN [t EXCEPT !.m_parent[x] = NoItem] ELSE t

RECURSIVE RemoveChildOf(_, _, _, _)
RECURSIVE Destroy(_, _)
RECURSIVE DestroyChildren(_, _, _)

\* this->RemoveChild(item, deleteObject) of an item without a model: the entry
\* is erased from the list and, if asked for, the item deleted.
RemoveChildOf(t, this, item, deleteObject) ==
    IF t.m_parent[item] = this /\ RowOf(t.m_childItems[this], item) > 0
        THEN LET erased == [t EXCEPT !.m_childItems[this] =
                                         Erase(@, RowOf(@, item))]
             IN  IF deleteObject THEN Destroy(erased, item) ELSE erased
    ELSE t

\* delete x: the destructor takes x out of its parent's list, clears the parent
\* of each child and deletes the child.  An item that is deleted already is
\* left as it is.
Destroy(t, x) ==
    IF x \in t.deleted THEN t
    ELSE LET marked == [t EXCEPT !.deleted = @ \cup {x}]
             removed == IF marked.m_parent[x] # NoItem
                            THEN RemoveChildOf(marked, marked.m_parent[x], x, FALSE)
                        ELSE marked
             after == DestroyChildren(removed, x, removed.m_childItems[x])
         IN  [after EXCEPT !.m_childItems[x] = << >>]

DestroyChildren(t, x, list) ==
    IF list = << >> THEN t
    ELSE DestroyChildren(Destroy(RemoveParent(t, Head(list), x), Head(list)),
                         x, Tail(list))

\* The items a caller can name: the ones that have not been deleted.
Live == TreeItems \ call.deleted

\* this->AddChild(item): nothing is done for a child of this; an item with
\* another parent is removed from it, with the default of deleteObject, then
\* the item is put into the list where the comparator says and given this as
\* its parent.
AddChild ==
    /\ call.pc = "tree"
    /\ \E this \in Live, item \in Live, deleteObject \in BOOLEAN :
         /\ outcome' = [pc |-> "tree", op |-> "AddChild", this |-> this, item |-> item]
         /\ IF call.m_parent[item] = this THEN call' = call
            ELSE LET removed == IF call.m_parent[item] # NoItem
                                    THEN RemoveChildOf(call, call.m_parent[item], item,
                                                       deleteObject)
                                ELSE call
                 IN  \E rowNumber \in 1..(Len(removed.m_childItems[this]) + 1) :
                       call' = [removed EXCEPT
                                  !.m_childItems[this] = Insert(@, rowNumber, item),
                                  !.m_parent[item] = this]
    /\ UNCHANGED << connVars, depsVars, likeVars >>

\* this->RemoveChild(item, false)
RemoveChild ==
    /\ call.pc = "tree"
    /\ \E this \in Live, item \in Live :
         /\ outcome' = [pc |-> "tree", op |-> "RemoveChild", this |-> this,
                        item |-> item]
         /\ call' = RemoveChildOf(call, this, item, FALSE)
    /\ UNCHANGED << connVars, depsVars, likeVars >>

\* item->DetachItem()
DetachItem ==
    /\ call.pc = "tree"
    /\ \E item \in Live :
         /\ outcome' = [pc |-> "tree", op |-> "DetachItem", this |-> item,
                        item |-> item]
         /\ call' = IF call.m_parent[item] # NoItem
                        THEN RemoveChildOf(call, call.m_parent[item], item, FALSE)
                    ELSE call
    /\ UNCHANGED << connVars, depsVars, likeVars >>

\* Freshly constructed items.
TreeInit ==
    /\ ConnIdle
    /\ call = [pc |-> "tree", m_parent |-> [x \in TreeItems |-> NoItem],
               m_childItems |-> [x \in TreeItems |-> << >>], deleted |-> {}]
    /\ outcome = [pc |-> "tree", op |-> "none", this |-> NoItem, item |-> NoItem]
    /\ deps = IdleDeps
    /\ cte = IdleCte
    /\ like = IdleLike

TreeNext == AddChild \/ RemoveChild \/ DetachItem

SpecTree == TreeInit /\ [][TreeNext]_vars

(***************************************************************************)
(* AnimGraphSnapshot: the dirty flag, the full-restore flag and Restore.     *)
(***************************************************************************)
\* The bits of LODFlag; m_dirtyFlag is the set of the bits that are set.
LODFlags == {"Parameter", "ActiveNodes", "MotionPlaytimes"}

\* The values of m_activeStateNodes that the callers set.
ActiveNodeLists == { << >>, << 1 >> }

\* The state after SetParameters, SetActiveNodes and SetMotionNodePlaytimes.
SetParametersResult(snapshot) ==
    [snapshot EXCEPT !.m_dirtyFlag = @ \cup {"Parameter"}]

SetActiveNodesResult(snapshot, activeNodes) ==
    IF snapshot.m_activeStateNodes # activeNodes
        THEN [snapshot EXCEPT !.m_activeStateNodes = activeNodes,
                              !.m_dirtyFlag = @ \cup {"ActiveNodes"}]
    ELSE snapshot

SetMotionNodePlaytimesResult(snapshot) ==
    [snapshot EXCEPT !.m_dirtyFlag = @ \cup {"MotionPlaytimes"}]

\* What Restore writes to the instance.
Restored(snapshot) ==
    IF snapshot.m_doFullRestore THEN LODFlags ELSE snapshot.m_dirtyFlag

\* The state after Restore: the full restore returns once it has cleared
\* m_doFullRestore; the restore by the dirty flag clears the dirty flag.
RestoreResult(snapshot) ==
    IF snapshot.m_doFullRestore
        THEN [snapshot EXCEPT !.m_doFullRestore = FALSE]
    ELSE [snapshot EXCEPT !.m_dirtyFlag = {}]

\* What the bundle serializer sets in the snapshot it deserializes into: any of
\* the three kinds of data, through the setters.
RECURSIVE DeserializeResult(_, _, _)
DeserializeResult(snapshot, received, activeNodes) ==
    IF received = {} THEN snapshot
    ELSE LET flag == CHOOSE f \in received : TRUE
             set == CASE flag = "Parameter" -> SetParametersResult(snapshot)
                      [] flag = "ActiveNodes" -> SetActiveNodesResult(snapshot, activeNodes)
                      [] OTHER -> SetMotionNodePlaytimesResult(snapshot)
         IN  DeserializeResult(set, received \ {flag}, activeNodes)

\* The operation just made, what it restored, and the operation before it.
Did(op, restored) ==
    outcome' = [pc |-> "snapshot", op |-> op, restored |-> restored, prev |-> outcome.op]

SetParameters ==
    /\ call.pc = "snapshot"
    /\ call' = SetParametersResult(call)
    /\ Did("SetParameters", {})
    /\ UNCHANGED << connVars, depsVars, likeVars >>

SetActiveNodes ==
    /\ call.pc = "snapshot"
    /\ \E activeNodes \in ActiveNodeLists : call' = SetActiveNodesResult(call, activeNodes)
    /\ Did("SetActiveNodes", {})
    /\ UNCHANGED << connVars, depsVars, likeVars >>

SetMotionNodePlaytimes ==
    /\ call.pc = "snapshot"
    /\ call' = SetMotionNodePlaytimesResult(call)
    /\ Did("SetMotionNodePlaytimes", {})
    /\ UNCHANGED << connVars, depsVars, likeVars >>

SetSnapshotSerializer ==
    /\ call.pc = "snapshot"
    /\ call' = [call EXCEPT !.m_bundleSerializer = "serializer"]
    /\ Did("SetSnapshotSerializer", {})
    /\ UNCHANGED << connVars, depsVars, likeVars >>

OnNetworkConnected ==
    /\ call.pc = "snapshot"
    /\ IF ~call.m_networkAuthoritative
           THEN \E received \in SUBSET LODFlags, activeNodes \in ActiveNodeLists :
                  LET deserialized == IF call.m_bundleSerializer # "nullptr"
                                          THEN DeserializeResult(call, received,
                                                                 activeNodes)
                                      ELSE call
                  IN  call' = [deserialized EXCEPT !.m_doFullRestore = TRUE]
       ELSE call' = call
    /\ Did("OnNetworkConnected", {})
    /\ UNCHANGED << connVars, depsVars, likeVars >>

Restore ==
    /\ call.pc = "snapshot"
    /\ call' = RestoreResult(call)
    /\ Did("Restore", Restored(call))
    /\ UNCHANGED << connVars, depsVars, likeVars >>

\* A snapshot as its constructor leaves it.
SnapshotInit ==
    /\ ConnIdle
    /\ \E networkAuthoritative \in BOOLEAN :
         call = [pc |-> "snapshot", m_bundleSerializer |-> "nullptr",
                 m_networkAuthoritative |-> networkAuthoritative, m_dirtyFlag |-> {},
                 m_doFullRestore |-> FALSE, m_activeStateNodes |-> << >>]
    /\ outcome = [pc |-> "snapshot", op |-> "none", restored |-> {}, prev |-> "none"]
    /\ deps = IdleDeps
    /\ cte = IdleCte
    /\ like = IdleLike

SnapshotNext ==
    \/ SetParameters
    \/ SetActiveNodes
    \/ SetMotionNodePlaytimes
    \/ SetSnapshotSerializer
    \/ OnNetworkConnected
    \/ Restore

SpecSnapshot == SnapshotInit /\ [][SnapshotNext]_vars

(***************************************************************************)
(* Properties of the recursive dependency resolver.                         *)
(***************************************************************************)
\* Product p has an edge to product q: a dependency row of p names the source
\* GUID and the sub-id of q.
HasEdge(edges, p, q) ==
    \E d \in edges, P \in ProductsTable, j \in JobsTable, src \in SourcesTable :
        /\ d.ProductPK = p
        /\ P.ProductID = q
        /\ j.JobID = P.JobPK
        /\ src.SourceID = j.SourcePK
        /\ src.SourceGuid = d.DependencySourceGuid
        /\ P.SubID = d.DependencySubID

Successors(edges, S) == { q \in ProductIDs : \E p \in S : HasEdge(edges, p, q) }

RECURSIVE Closure(_, _)
Closure(edges, S) ==
    LET next == S \cup Successors(edges, S)
    IN  IF next = S THEN S ELSE Closure(edges, next)

\* The products reachable from product `root` by one or more edges.
ReachableByEdges(edges, root) ==
    IF root \in ProductIDs THEN Closure(edges, Successors(edges, {root})) ELSE {}

DeliveredProducts == { deps.delivered[i] : i \in 1..Len(deps.delivered) }

\* C6: when QueryAllProductDependencies(root) is done, the handler has been
\* given each product at most once and never the root; what it was given is
\* reachable from the root by one or more edges, and with a handler that keeps
\* going it is exactly the set of those products (the root left out).
C6_DeliversReachableSet ==
    deps.pc = "done" =>
        LET expected == ReachableByEdges(deps.edges, deps.root) \ {deps.root}
        IN  /\ deps.root \notin DeliveredProducts
            /\ Cardinality(DeliveredProducts) = Len(deps.delivered)
            /\ DeliveredProducts \subseteq expected
            /\ deps.stopAt = 0 => (DeliveredProducts = expected /\ deps.ret)

\* The cycle 1 -> {2, 4} -> 3 -> 1 walked from product 1: the handler has been
\* given products 2, 3 and 4.
C6_Witness ==
    /\ deps.pc = "done"
    /\ deps.stopAt = 0
    /\ deps.root = 1
    /\ deps.edges =
         { [ProductPK |-> 1, DependencySourceGuid |-> "gB", DependencySubID |-> 0],
           [ProductPK |-> 2, DependencySourceGuid |-> "gC", DependencySubID |-> 0],
           [ProductPK |-> 3, DependencySourceGuid |-> "gA", DependencySubID |-> 0] }
    /\ DeliveredProducts = {2, 3, 4}

NoRepeat(q) == \A i, j \in 1..Len(q) : q[i] = q[j] => i = j

\* C7: the walk terminates on every graph, cycles and self-edges included: no
\* product is expanded twice, the products expanded and the products waiting
\* are never more than the products there are, and the queue of a query that
\* has started is eventually empty.
C7_WalkTerminates ==
    /\ [](cte.pc \in {"running", "done"} =>
            /\ NoRepeat(cte.expanded)
            /\ Len(cte.expanded) + Len(cte.queue) <= Cardinality(ProductsTable))
    /\ ((cte.pc = "running") ~> (cte.pc \in {"running", "done"} /\ cte.queue = << >>))

\* A walk that is done on a graph where the root has a self-edge and lies on a
\* longer cycle too.
C7_Witness ==
    /\ cte.pc = "done"
    /\ HasEdge(deps.edges, deps.root, deps.root)
    /\ \E p \in ProductIDs \ {deps.root} :
         /\ p \in ReachableByEdges(deps.edges, deps.root)
         /\ deps.root \in ReachableByEdges(deps.edges, p)
    /\ Len(cte.expanded) >= 2

\* C19: QueryDirectProductDependencies(p) hands the handler only products that
\* an edge of p leads to, and every one of them when the handler does not stop
\* it: a product reached only through an edge of another product is not
\* delivered.
C19_DirectDependenciesOneHop ==
    deps.pc = "done" =>
        LET targets == Successors(deps.edges, {deps.root})
        IN  /\ DeliveredProducts \subseteq targets
            /\ deps.stopAt = 0 => (DeliveredProducts = targets /\ deps.ret)

\* Product 1 depends on the outputs of source gB, and product 2 on the output of
\* source gC: the query for 1 gave products 2 and 4 and not product 3.
C19_Witness ==
    /\ deps.pc = "done"
    /\ deps.stopAt = 0
    /\ deps.root = 1
    /\ \E d \in deps.edges : d.ProductPK = 1 /\ d.DependencySourceGuid = "gB"
    /\ \E d \in deps.edges : d.ProductPK = 2 /\ d.DependencySourceGuid = "gC"
    /\ 3 \in ReachableByEdges(deps.edges, 1)
    /\ DeliveredProducts = {2, 4}

(***************************************************************************)
(* Properties of the connection manager.                                   *)
(***************************************************************************)
\* The dbinfo table holds a version, and no row of it holds the current one.
StoredVersionDiffers(st) ==
    /\ st.dbinfo # << >>
    /\ \A i \in 1..Len(st.dbinfo) : st.dbinfo[i] # CurrentDatabaseVersion

\* The dbinfo table holds a version, and every row of it holds the current one.
StoredVersionMatches(st) ==
    /\ st.dbinfo # << >>
    /\ \A i \in 1..Len(st.dbinfo) : st.dbinfo[i] = CurrentDatabaseVersion

\* C1: when the version stored in dbinfo differs from CurrentDatabaseVersion(),
\* OpenDatabase returns false and no store handle is held afterwards.
C1_VersionMismatchFailsOpen ==
    (lastOp.op = "OpenDatabase" /\ StoredVersionDiffers(store))
        => (~lastOp.ret /\ m_databaseConnection = "null")

\* An OpenDatabase that opened a store holding every expected table and another
\* version, and failed in PostOpenDatabase.
C1_Witness ==
    /\ lastOp.op = "OpenDatabase"
    /\ lastOp.stage = "PostOpenFailed"
    /\ StoredVersionDiffers(store)
    /\ ExpectedTableSet \subseteq store.tables
    /\ ~lastOp.ret

\* C2: whenever OpenDatabase, called on a closed connection, returns false, for
\* whatever cause, the connection is fully closed on return: the store handle is
\* null and the validated-tables memo is empty.
C2_FailedOpenLeavesClosed ==
    (lastOp.op = "OpenDatabase" /\ ~lastOp.ret)
        => (m_databaseConnection = "null" /\ m_validatedTables = {})

\* An OpenDatabase that failed on a missing table after the tables before it had
\* been validated and memoized.
C2_Witness ==
    /\ lastOp.op = "OpenDatabase"
    /\ lastOp.stage = "PostOpenFailed"
    /\ StoredVersionMatches(store)
    /\ "BuilderInfo" \in store.tables
    /\ "Sources" \notin store.tables
    /\ ~lastOp.ret

\* C3: OpenDatabase returns true only when every one of the ten expected tables
\* exists in the store; with a matching stored version and an opened store it
\* returns false exactly when at least one of them is missing.
C3_MissingTableFailsOpen ==
    lastOp.op = "OpenDatabase" =>
        /\ lastOp.ret => ExpectedTableSet \subseteq store.tables
        /\ (lastOp.stage \in {"Opened", "PostOpenFailed"} /\ StoredVersionMatches(store))
               => (lastOp.ret <=> ExpectedTableSet \subseteq store.tables)

\* An OpenDatabase on a store with the current version and without BuilderInfo.
C3_Witness ==
    /\ lastOp.op = "OpenDatabase"
    /\ lastOp.stage = "PostOpenFailed"
    /\ StoredVersionMatches(store)
    /\ ExpectedTableSet \ store.tables = {"BuilderInfo"}
    /\ ~lastOp.ret

\* The step taken is a call of ValidateDatabaseTable.
ValidateCalled == lastOp'.op = "ValidateDatabaseTable"

\* C14: a name for which ValidateDatabaseTable returns true is in the memo from
\* then on, until CloseDatabase or OpenDatabase; a call for a name in the memo
\* returns true and does not ask the store; CloseDatabase leaves the memo empty
\* and OpenDatabase leaves in it only what it has validated itself, so on an
\* open connection a call for a name that is not in the memo asks the store.
C14_ValidationMemoized ==
    [][ /\ (ValidateCalled /\ lastOp'.ret) => lastOp'.arg \in m_validatedTables'
        /\ \A name \in m_validatedTables :
             name \notin m_validatedTables'
                 => lastOp'.op \in {"CloseDatabase", "OpenDatabase"}
        /\ (ValidateCalled /\ lastOp'.arg \in m_validatedTables)
               => (lastOp'.ret /\ ~lastOp'.asked)
        /\ lastOp'.op = "CloseDatabase" => m_validatedTables' = {}
        /\ lastOp'.op = "OpenDatabase" => m_validatedTables' \subseteq ExpectedTableSet
        /\ (ValidateCalled /\ m_databaseConnection = "open"
                /\ lastOp'.arg \notin m_validatedTables) => lastOp'.asked
      ]_vars

\* A call for the table that OpenDatabase does not validate, answered from the
\* memo of the open connection.
C14_Witness ==
    /\ lastOp.op = "ValidateDatabaseTable"
    /\ lastOp.arg = ExtraTable
    /\ m_databaseConnection = "open"
    /\ lastOp.ret
    /\ ~lastOp.asked

\* C15: CloseDatabase leaves the handle null and the memo empty; on a closed
\* connection it changes nothing and does not touch the store; a second
\* CloseDatabase right after a first leaves what the first left.
C15_CloseIdempotent ==
    /\ [](LET once == CloseDatabaseResult(m_databaseConnection, m_validatedTables)
              twice == CloseDatabaseResult(once.conn, once.validated)
          IN  /\ twice.conn = once.conn
              /\ twice.validated = once.validated
              /\ ~twice.touched)
    /\ [][ lastOp'.op = "CloseDatabase" =>
             /\ m_databaseConnection' = "null"
             /\ m_validatedTables' = {}
             /\ store' = store
             /\ m_databaseConnection = "null" =>
                  /\ ~lastOp'.touched
                  /\ UNCHANGED << m_databaseConnection, m_validatedTables >>
         ]_vars

\* A CloseDatabase on a closed connection, after the store has been opened: the
\* call did not touch the store.
C15_Witness ==
    /\ lastOp.op = "CloseDatabase"
    /\ ~lastOp.touched
    /\ m_databaseConnection = "null"
    /\ m_validatedTables = {}
    /\ ExpectedTableSet \subseteq store.tables

\* C16: after OpenDatabase, CloseDatabase, OpenDatabase, CloseDatabase on one
\* database, the second OpenDatabase has returned what the first returned and
\* validated the tables the first validated.
C16_SecondRoundSameAsFirst ==
    (call.pc = "rounds" /\ call.made = Len(RoundCalls)) =>
        outcome.opens[2] = outcome.opens[1]

\* C21: an OpenDatabase that gets to read the version of a store whose dbinfo
\* table holds no row returns false and leaves the connection closed.
C21_NoVersionRowFailsOpen ==
    (/\ lastOp.op = "OpenDatabase"
     /\ lastOp.stage \in {"Opened", "PostOpenFailed"}
     /\ DoesTableExist(store, "dbinfo")
     /\ store.dbinfo = << >>)
        => (~lastOp.ret /\ m_databaseConnection = "null" /\ m_validatedTables = {})

(***************************************************************************)
(* Properties of the result projection layer.                              *)
(***************************************************************************)
\* C4: a query call that finds zero rows and meets no store error returns true
\* with zero handler invocations, and a public query method returns false only
\* on a store error (bind, fetch or step failure), the scan-folder-by-source
\* lookup included.
C4_FalseOnlyOnStoreError ==
    outcome.pc = "done" =>
        /\ (call.rows = << >> /\ call.fault = NoFault)
               => (outcome.ret /\ outcome.delivered = << >>)
        /\ ~outcome.ret => call.fault # NoFault

\* C5: if the handler returns false on its first invocation, it is invoked
\* exactly once in that call, and no Step follows the row it was given.
C5_EarlyStopDeliversOneRow ==
    (outcome.pc = "done" /\ call.stopAt = 1) =>
        /\ Len(outcome.delivered) <= 1
        /\ outcome.delivered # << >> => outcome.steps = outcome.delivered[1]

\* A call over two rows whose handler stopped it at the first one.
C5_Witness ==
    /\ outcome.pc = "done"
    /\ call.stopAt = 1
    /\ call.method = "QueryCombined"
    /\ Len(call.rows) = 2
    /\ call.fault = NoFault
    /\ outcome.delivered = << 1 >>
    /\ outcome.steps = 1
    /\ outcome.ret

\* The criteria as the callers state them: an absent criterion matches every row.
CriteriaHold(crit, row) ==
    /\ crit.jobKey = "null" \/ row.jobKey = crit.jobKey
    /\ crit.builderGuid = "NullGuid" \/ row.builderGuid = crit.builderGuid
    /\ crit.status = "Any" \/ row.status = crit.status

\* The positions of the rows of a call that hold its criteria, in order.
MatchingRows(c) ==
    SelectSeq([i \in 1..Len(c.rows) |-> i], LAMBDA i : CriteriaHold(c.crit, c.rows[i]))

IsPrefix(s, t) == Len(s) <= Len(t) /\ SubSeq(t, 1, Len(s)) = s

\* C10: in a job-filtered, product-filtered or combined query the handler is
\* invoked for exactly the fetched rows that hold the criteria given, in order;
\* rows that do not are skipped without ending the iteration, so a call that no
\* fault and no handler stops delivers every matching row.
C10_HandlerSeesMatchingRows ==
    (outcome.pc = "done" /\ call.method \in FilteredMethods) =>
        /\ IsPrefix(outcome.delivered, MatchingRows(call))
        /\ (call.fault = NoFault /\ call.stopAt = 0)
               => (outcome.delivered = MatchingRows(call) /\ outcome.ret)
        /\ (call.fault = NoFault /\ call.stopAt > Len(MatchingRows(call)))
               => outcome.delivered = MatchingRows(call)

\* A product query with a status criterion whose first row fails it and whose
\* second row holds it.
C10_Witness ==
    /\ outcome.pc = "done"
    /\ call.method = "QueryProductsTable"
    /\ call.crit = [jobKey |-> "null", builderGuid |-> "NullGuid", status |-> "Completed"]
    /\ Len(call.rows) = 2
    /\ call.rows[1].status = "Failed"
    /\ call.rows[2].status = "Completed"
    /\ call.fault = NoFault
    /\ outcome.delivered = << 2 >>


(***************************************************************************)
(* Properties of the like searches.                                         *)
(***************************************************************************)
\* A pattern as LIKE ... ESCAPE '|' reads it: a wildcard, a character that
\* matches itself, or a lone escape character at the end.
RECURSIVE Tokens(_)
Tokens(pattern) ==
    IF pattern = << >> THEN << >>
    ELSE IF Head(pattern) = "|"
    THEN IF Len(pattern) = 1 THEN << [kind |-> "dangling", ch |-> "|"] >>
         ELSE << [kind |-> "literal", ch |-> pattern[2]] >>
                  \o Tokens(SubSeq(pattern, 3, Len(pattern)))
    ELSE IF Head(pattern) \in {"%", "_"}
    THEN << [kind |-> "wildcard", ch |-> Head(pattern)] >> \o Tokens(Tail(pattern))
    ELSE << [kind |-> "literal", ch |-> Head(pattern)] >> \o Tokens(Tail(pattern))

Count(str, c) == Cardinality({ i \in 1..Len(str) : str[i] = c })

IsSuffix(s, t) == Len(s) <= Len(t) /\ SubSeq(t, Len(t) - Len(s) + 1, Len(t)) = s

Contains(t, s) == \E k \in 0..(Len(t) - Len(s)) : SubSeq(t, k + 1, k + Len(s)) = s

\* C8: under StartsWith, EndsWith and Matches, for every literal, the only
\* unescaped wildcards of the pattern are the '%' added at its end, at its
\* start or at both; each '%' and '_' of the literal is in the pattern as a
\* character that matches itself, so a name the pattern matches has at least
\* the '%' and '_' characters of the literal.
C8_LiteralWildcardsEscaped ==
    (like.pc = "done" /\ like.likeType # "Raw") =>
        LET t == Tokens(like.actualSearchTerm)
            wild == { i \in 1..Len(t) : t[i].kind = "wildcard" }
            added == CASE like.likeType = "StartsWith" -> {Len(t)}
                       [] like.likeType = "EndsWith" -> {1}
                       [] OTHER -> {1, Len(t)}
        IN  /\ wild = added
            /\ \A i \in wild : t[i].ch = "%"
            /\ \A c \in {"%", "_"} :
                 /\ Cardinality({ i \in 1..Len(t) : t[i].kind = "literal" /\ t[i].ch = c })
                      = Count(like.likeString, c)
                 /\ like.matched => Count(like.name, c) >= Count(like.likeString, c)

\* C9: for every literal, one with '|' in it included, the pattern built for
\* StartsWith, EndsWith or Matches matches exactly the names that begin with,
\* end with or contain the literal.
C9_PatternMatchesLiteralText ==
    (like.pc = "done" /\ like.likeType # "Raw") =>
        (like.matched <=>
            CASE like.likeType = "StartsWith" -> IsPrefix(like.likeString, like.name)
              [] like.likeType = "EndsWith" -> IsSuffix(like.likeString, like.name)
              [] OTHER -> Contains(like.name, like.likeString))


\* The n-th Step of the call was made and failed.
StepFailed == call.fault.kind = "step" /\ outcome.steps = call.fault.at

\* The positions below n in a sequence of positions.
Before(q, n) == SelectSeq(q, LAMBDA i : i < n)

\* C11: when a Step fails, the call returns false, and the handler has been
\* invoked once for each row (that holds the criteria) fetched before the
\* failure and for no other: rows delivered are not taken back, and none is
\* delivered after the failure.
C11_StepErrorAfterRows ==
    (outcome.pc = "done" /\ StepFailed) =>
        /\ ~outcome.ret
        /\ outcome.delivered = Before(MatchingRows(call), call.fault.at)

\* QueryBuilderInfoTable over two rows, the third Step failing: both rows were
\* delivered and the call returned false.
C11_Witness ==
    /\ outcome.pc = "done"
    /\ call.method = "QueryBuilderInfoTable"
    /\ Len(call.rows) = 2
    /\ call.fault = [kind |-> "step", at |-> 3]
    /\ outcome.delivered = << 1, 2 >>
    /\ ~outcome.ret


\* The positions of the rows of a table whose UnresolvedPath is a non-empty string.
UnresolvedRows(table) ==
    SelectSeq([i \in 1..Len(table) |-> i], LAMBDA i : table[i] \notin {"", "NULL"})

\* C12: QueryUnresolvedProductDependencies hands the handler rows whose
\* UnresolvedPath is a non-empty string, in order and none twice, never a row
\* whose UnresolvedPath is the empty string; when the handler does not stop it
\* and the store does not fail, it hands over every such row and returns true.
C12_UnresolvedRowsOnly ==
    (outcome.pc = "done" /\ call.method = "QueryUnresolvedProductDependencies") =>
        /\ IsPrefix(outcome.delivered, UnresolvedRows(call.table))
        /\ \A i \in 1..Len(outcome.delivered) : call.table[outcome.delivered[i]] # ""
        /\ (call.fault = NoFault /\ call.stopAt = 0)
               => (outcome.delivered = UnresolvedRows(call.table) /\ outcome.ret)

\* A table with a resolved row and a pending one: the pending one was delivered.
C12_Witness ==
    /\ outcome.pc = "done"
    /\ call.method = "QueryUnresolvedProductDependencies"
    /\ call.table = << "", "a.txt" >>
    /\ call.fault = NoFault
    /\ call.stopAt = 0
    /\ outcome.delivered = << 2 >>
    /\ outcome.ret


\* How the last call ended.
ExitPath ==
    IF call.fault.kind = "bind" THEN "BindFailure"
    ELSE IF call.fault.kind = "step" /\ outcome.steps = call.fault.at THEN "StepError"
    ELSE IF call.fault.kind = "fetch" /\ ~outcome.ret THEN "FetchFailure"
    ELSE IF call.stopAt # 0 /\ Len(outcome.delivered) = call.stopAt THEN "EarlyStop"
    ELSE "Completion"

C17_ScanFolderIdentityIsPortableKey ==
    (call.pc = "done" /\ call.method = "ScanFolderDatabaseEntry::operator==") =>
        (outcome.ret <=> call.this.m_portableKey = call.other.m_portableKey)

\* Two entries with one portable key and nothing else in common compare equal.
C17_Witness ==
    /\ call.pc = "done"
    /\ call.method = "ScanFolderDatabaseEntry::operator=="
    /\ call.this.m_portableKey = call.other.m_portableKey
    /\ call.this.m_scanFolderID # call.other.m_scanFolderID
    /\ call.this.m_scanFolder # call.other.m_scanFolder
    /\ call.this.m_displayName # call.other.m_displayName
    /\ call.this.m_outputPrefix # call.other.m_outputPrefix
    /\ call.this.m_isRoot # call.other.m_isRoot
    /\ outcome.ret

C20_LegacySubIDsOfTheRowOnly ==
    (outcome.pc = "done" /\ call.method = "QueryCombined" /\ call.includeLegacySubIDs) =>
        /\ Len(outcome.legacySubIDs) = Len(outcome.delivered)
        /\ \A i \in 1..Len(outcome.delivered) :
             outcome.legacySubIDs[i] =
                 SelectSeq(call.table,
                           LAMBDA entry :
                               entry.ProductPK = call.rows[outcome.delivered[i]].productID)


(***************************************************************************)
(* Properties of the combined queries.                                      *)
(***************************************************************************)
\* The methods that take an optional platform.
PlatformMethods ==
    {"QueryCombinedBySourceID", "QueryCombinedByProductID",
     "QueryCombinedBySourceGuidProductSubId", "QueryCombinedBySourceName",
     "QueryCombinedLikeSourceName", "QueryCombinedByProductName",
     "QueryCombinedLikeProductName"}

\* The rows the call handed to the handler.
DeliveredRows == { outcome.rows[i] : i \in 1..Len(outcome.rows) }

\* The rows the same call hands over when it is made without a platform.
UnfilteredRows ==
    LET o == CombinedResult([call EXCEPT !.args.platform = "null"])
    IN  { o.rows[i] : i \in 1..Len(o.rows) }

\* The job of a product, the source of a job, the scan folder of a source.
ProductJob(db, P) == CHOOSE J \in Jobs(db) : J.JobID = P.JobPK

JobSource(db, J) == CHOOSE S \in Sources(db) : S.SourceID = J.SourcePK

SourceScanFolder(db, S) == CHOOSE F \in ScanFolders(db) : F.ScanFolderID = S.ScanFolderPK

\* C22: a call with a non-empty platform hands over exactly the rows of the call
\* without a platform whose job is for that platform; a null and an empty
\* platform both hand over the rows of the call without a platform.
C22_PlatformSelectsRowsOfThatPlatform ==
    (call.pc = "done" /\ call.method \in PlatformMethods)
        => DeliveredRows = IF HasPlatform(call.args.platform)
                               THEN { r \in UnfilteredRows :
                                        r.Platform = call.args.platform }
                           ELSE UnfilteredRows

\* C23: QueryCombinedBySourceGuidProductSubId hands over every product with the
\* sub-id whose source has the GUID or whose legacy GUID is the GUID (and, with
\* a platform, whose job is for the platform), and no other product.
C23_SourceGuidOrLegacyGuid ==
    (call.pc = "done" /\ call.method = "QueryCombinedBySourceGuidProductSubId")
        => { r.ProductID : r \in DeliveredRows }
             = { P.ProductID : P \in
                   { P \in Products(call.db) :
                       /\ P.SubID = call.args.subid
                       /\ \/ JobSource(call.db, ProductJob(call.db, P)).SourceGuid
                                = call.args.guid
                          \/ P.LegacyGuid = call.args.guid
                       /\ HasPlatform(call.args.platform)
                            => ProductJob(call.db, P).Platform = call.args.platform } }

\* C24: QueryScanFolderByProductID hands over the scan folder of the source of
\* the job of the product, and no other scan folder.
C24_ScanFolderOfTheProduct ==
    (call.pc = "done" /\ call.method = "QueryScanFolderByProductID")
        => { r.ScanFolderID : r \in DeliveredRows }
             = { SourceScanFolder(call.db,
                     JobSource(call.db, ProductJob(call.db, P))).ScanFolderID :
                   P \in { P \in Products(call.db) : P.ProductID = call.args.id } }

\* C25: a row of QueryCombinedByProductName holds a product, the job of the
\* product, the source of the job and the scan folder the source lies in.
C25_RowsOfProductNameAreConsistent ==
    (call.pc = "done" /\ call.method = "QueryCombinedByProductName")
        => \A r \in DeliveredRows :
             /\ r.JobID = r.JobPK
             /\ r.SourceID = r.SourcePK
             /\ r.ScanFolderID = r.ScanFolderPK


(***************************************************************************)
(* Properties of the job infos.                                             *)
(***************************************************************************)
\* The job infos the call handed to the handler.
DeliveredJobInfos == { outcome.delivered[i] : i \in 1..Len(outcome.delivered) }

\* C26: QueryJobInfoByJobRunKey hands over a job info only for a job whose
\* Source row exists, with the name of that row as its source file.
C26_SourceNameOfTheJobsOwnSource ==
    (call.pc = "done" /\ call.method = "QueryJobInfoByJobRunKey")
        => \A jobinfo \in DeliveredJobInfos :
             \E S \in Sources(call.db) :
                /\ S.SourceID = call.db.Jobs[jobinfo.JobID].SourcePK
                /\ jobinfo.m_sourceFile = S.SourceName

\* C27: with a handler that keeps going, QueryJobInfoByJobKey hands over one
\* job info for each job with the key whose source and scan folder rows exist,
\* with or without products, and returns true when there is such a job.
C27_EveryJobWithTheKey ==
    (call.pc = "done" /\ call.method = "QueryJobInfoByJobKey" /\ call.stopAt = 0)
        => LET expected == { J \in Jobs(call.db) :
                               /\ J.jobKey = call.jobKey
                               /\ \E S \in Sources(call.db) :
                                    /\ S.SourceID = J.SourcePK
                                    /\ \E F \in ScanFolders(call.db) :
                                         F.ScanFolderID = S.ScanFolderPK }
           IN  /\ { jobinfo.JobID : jobinfo \in DeliveredJobInfos }
                    = { J.JobID : J \in expected }
               /\ Len(outcome.delivered) = Cardinality(expected)
               /\ expected # {} => outcome.ret


(***************************************************************************)
(* Properties of the source dependencies.                                   *)
(***************************************************************************)
\* C28: every row QuerySourceDependencyByDependsOnSource hands over has a
\* stored TypeOfDependency with a bit of the type asked for.
C28_RowsShareABitWithTheType ==
    (call.pc = "done" /\ call.method = "QuerySourceDependencyByDependsOnSource")
        => \A i \in 1..Len(outcome.rows) :
             BitAnd(outcome.rows[i].TypeOfDependency, call.dependencyType)


(***************************************************************************)
(* Properties of GraphCanvasTreeItem.                                       *)
(***************************************************************************)
\* The number of entries of the list that are the item.
Entries(list, item) == Cardinality({ i \in 1..Len(list) : list[i] = item })

\* C29: while no item has been deleted, the parent of an item is p exactly when
\* the item is in the child list of p, and an item is in at most one child
\* list, at most once.
C29_ParentIffInChildList ==
    call.deleted = {}
        => /\ \A item \in TreeItems, p \in TreeItems :
                call.m_parent[item] = p <=> Entries(call.m_childItems[p], item) > 0
           /\ \A item \in TreeItems :
                Cardinality({ p \in TreeItems :
                                Entries(call.m_childItems[p], item) > 0 }) <= 1
           /\ \A item \in TreeItems, p \in TreeItems :
                Entries(call.m_childItems[p], item) <= 1


(***************************************************************************)
(* Properties of AnimGraphSnapshot.                                         *)
(***************************************************************************)
\* C30: after a Restore the dirty flag is 0 and the full-restore flag false, and
\* a Restore that follows a Restore restores nothing.
C30_RestoreClearsBothFlags ==
    outcome.op = "Restore"
        => /\ call.m_dirtyFlag = {}
           /\ ~call.m_doFullRestore
           /\ outcome.prev = "Restore" => outcome.restored = {}

====
